---- MODULE Spec2Model ----
(***************************************************************************)
(* A model of phosphor-domutil's drag and drop layer: the document-wide    *)
(* cursor override, DragData, DragHandler (mousedown / mousemove /         *)
(* mouseup / start / dispose) and the drop registry with its two-pass      *)
(* runDropHandlers dispatch.                                               *)
(*                                                                         *)
(* Every handler of the source is a function from a "world" record (all of *)
(* the program's mutable state) to the world it leaves behind, so that a   *)
(* handler that calls other handlers is their composition, in the order of *)
(* the source.  An action of the state machine is one DOM event or one     *)
(* public method call, run to completion.                                  *)
(***************************************************************************)
EXTENDS Integers, Sequences, FiniteSets, TLC

VARIABLES
    overrideID,     \* the id of the active cursor override (module variable)
    cursor,         \* document.body.style.cursor
    overrideClass,  \* whether document.body carries p-mod-override-cursor
    drag,           \* the constructed DragHandlers: id -> fields
    ghosts,         \* per DragHandler, how many of its ghost nodes are children of document.body
    registry,       \* dropRegistry: the drop records, in key (registration) order
    drop,           \* the DropHandlers: id -> node geometry and callback slots
    docListeners,   \* the DragHandlers listening for mousemove/mouseup on document, in order of addEventListener
    event,          \* the DOM event or method call handled by the last step
    calls,          \* the callbacks dispatched while handling it, in order
    threw,          \* whether handling it raised an exception
    hist,           \* per DragHandler, what has happened since its last press
    handles,        \* the disposables overrideCursor returned to the application, in order of creation
    probe,          \* a call of one of the module's functions: its arguments and what it returned
    variant,        \* the DragHandler of the autostart variant, with the one drop target registered beside it
    dropCache,      \* the drop data cache: the next id and, per id, the data of a drag event
    dataTransfer    \* per DragEvent, the id stored in its dataTransfer under DRAG_MIME_TYPE

progVars == <<overrideID, cursor, overrideClass, drag, ghosts, registry, drop, docListeners>>
vars == <<overrideID, cursor, overrideClass, drag, ghosts, registry, drop, docListeners,
          event, calls, threw, hist, handles, probe, variant, dropCache, dataTransfer>>

----------------------------------------------------------------------------
(* Program constants and the bounds of the model *)

DRAG_THRESHOLD == 5

\* The override id counter grows with every DragData and every change of
\* dropAction; steps that would take it past this bound are not taken.
MaxOverrideID == 7

\* How many cursor overrides the application itself creates.
MaxHandles == 3

\* The cursor styles the application asks for.
Cursors == {"wait", "default", "cell"}

DragIds == {"h1"}
TwoDragIds == {"h1", "h2"}
DropIds == {"A", "B"}

\* Client positions used by the events.  With the node rectangles below:
\* <<0,0>>, <<4,4>> and <<0,5>> are outside both drop targets, <<5,0>> is in A
\* (and, when B overlaps A, in B as well), and <<10,0>>, A's right edge, is in
\* B only.  From a press at <<0,0>>, <<4,4>> is under the drag threshold,
\* <<5,0>> reaches it in x only and <<0,5>> in y only.
Points == {<<0, 0>>, <<4, 4>>, <<5, 0>>, <<0, 5>>, <<10, 0>>}
PressPoints == {<<0, 0>>, <<4, 4>>}
DataPoints == {<<0, 0>>, <<5, 0>>}

\* Positions for the autostart variant: from a press at <<0,0>>, <<3,3>> is
\* nearer than 5 pixels, <<3,4>> is 5 pixels away with neither axis reaching
\* 5, <<5,0>> is inside the drop target.
VariantPoints == {<<0, 0>>, <<3, 3>>, <<3, 4>>, <<5, 0>>}

\* The (button, position) pairs of the mouse events: the primary button
\* anywhere, another button at one position.
DownInputs == {<<0, p>> : p \in PressPoints} \cup {<<1, <<0, 0>>>>}
UpInputs == {<<0, p>> : p \in Points} \cup {<<1, <<0, 0>>>>}

Rect(l, t, r, b) == [set |-> TRUE, left |-> l, top |-> t, right |-> r, bottom |-> b]
NullRect == [set |-> FALSE, left |-> 0, top |-> 0, right |-> 0, bottom |-> 0]

\* The coordinates of the rects and points that hitTest is called with.
MaxCoord == 2
Coords == 0..MaxCoord
HitRects ==
    {r \in [set : {TRUE}, left : Coords, top : Coords, right : Coords, bottom : Coords] :
        r.left < r.right /\ r.top < r.bottom}

RectA == Rect(5, 0, 10, 5)
RectBAbutting == Rect(10, 0, 15, 5)
RectBOverlapping == Rect(5, 0, 15, 5)

\* Where the layout can put the node of a drop handler: the rects above and
\* one around <<0,0>>, which does not contain <<5,0>>.
NodeRects == {RectA, RectBAbutting, RectBOverlapping, Rect(0, 0, 5, 5)}

DropActions == {"copy", "link", "move", "none"}

\* The values the application assigns to dropAction: the four drop actions and
\* two strings that are none of them.
AssignedValues == DropActions \cup {"foo", ""}

\* The MIME types and the payload values the application uses.
Mimes == {"text/plain", "text/html"}
PayloadValues == {"v1", "v2"}

\* The native drag events the application stores drop data for, the value of
\* dataTransfer.getData(DRAG_MIME_TYPE) on an event that has no id yet, and
\* how many ids the cache hands out.
DragEvents == {"e1", "e2"}
NoId == -1
MaxDropId == 3

\* A callback slot holds "null" or a function.  A function is modelled by what
\* it does: "throw" raises an exception, "keep" leaves dropAction alone, any
\* other value is assigned to data.dropAction.
SlotValues == {"null", "keep", "throw"} \cup DropActions

Abs(n) == IF n < 0 THEN -n ELSE n

\* A displacement of 5 pixels or more in x or in y from (px, py).
Reaches5(px, py, x, y) == Abs(x - px) >= 5 \/ Abs(y - py) >= 5

InSeq(x, s) == \E i \in 1..Len(s) : s[i] = x

Without(s, x) == SelectSeq(s, LAMBDA e : e # x)

----------------------------------------------------------------------------
(* The world record *)

World ==
    [overrideID |-> overrideID, cursor |-> cursor, overrideClass |-> overrideClass,
     drag |-> drag, ghosts |-> ghosts, registry |-> registry, drop |-> drop,
     docListeners |-> docListeners, calls |-> <<>>, threw |-> FALSE]

NoDragData ==
    [live |-> FALSE, action |-> "none", override |-> 0, ghostX |-> -1, ghostY |-> -1,
     data |-> <<>>]

----------------------------------------------------------------------------
(* Cursor override *)

\* overrideCursor(cursor): the id of the disposable it returns is the new overrideID.
overrideCursor(w, c) ==
    [w EXCEPT !.overrideID = @ + 1, !.cursor = c, !.overrideClass = TRUE]

\* Faulty variant of disposeOverride: the id is not compared with overrideID.
disposeOverrideAnyId(w, id) == [w EXCEPT !.cursor = "", !.overrideClass = FALSE]

\* The dispose callback of the override with the given id.
disposeOverride(w, id) ==
    IF id = w.overrideID
    THEN [w EXCEPT !.cursor = "", !.overrideClass = FALSE]
    ELSE w

\* Faulty variant of hitTestRect: the right and bottom edges are inside.
hitTestRectClosed(r, x, y) == x >= r.left /\ x <= r.right /\ y >= r.top /\ y <= r.bottom

\* Test whether a client position lies within a client rect.
hitTestRect(r, x, y) == x >= r.left /\ x < r.right /\ y >= r.top /\ y < r.bottom

\* hitTest(node, clientX, clientY), the node given by its bounding client rect.
hitTest(nodeRect, x, y) == hitTestRect(nodeRect, x, y)

----------------------------------------------------------------------------
(* DragData *)

\* new DragData(ghost), stored in the handler's _dragData.
newDragData(w, h) ==
    LET w1 == overrideCursor(w, "no-drop")
    IN  [w1 EXCEPT !.drag[h].dragData =
            [live |-> TRUE, action |-> "none", override |-> w1.overrideID,
             ghostX |-> -1, ghostY |-> -1, data |-> <<>>]]

\* Faulty variant of assignAction: the cursor is not overridden.
assignActionNoCursor(w, h, value, c) == [w EXCEPT !.drag[h].dragData.action = value]

\* One case of the setter's switch.
assignAction(w, h, value, c) ==
    LET w1 == overrideCursor(w, c)
    IN  [w1 EXCEPT !.drag[h].dragData.action = value,
                   !.drag[h].dragData.override = w1.overrideID]

\* Faulty variant of setDropAction: a value that is no drop action is stored.
setDropActionUnchecked(w, h, value) ==
    IF value = w.drag[h].dragData.action THEN w
    ELSE CASE value = "copy" -> assignAction(w, h, value, "copy")
           [] value = "link" -> assignAction(w, h, value, "alias")
           [] value = "move" -> assignAction(w, h, value, "move")
           [] value = "none" -> assignAction(w, h, value, "no-drop")
           [] OTHER -> [w EXCEPT !.drag[h].dragData.action = value]

\* Faulty variant of setDropAction: assigning the value already held installs
\* its cursor override again.
setDropActionAgain(w, h, value) ==
    CASE value = "copy" -> assignAction(w, h, value, "copy")
      [] value = "link" -> assignAction(w, h, value, "alias")
      [] value = "move" -> assignAction(w, h, value, "move")
      [] value = "none" -> assignAction(w, h, value, "no-drop")
      [] OTHER -> w

\* set dropAction(value) on the DragData of handler h.
setDropAction(w, h, value) ==
    IF value = w.drag[h].dragData.action THEN w
    ELSE CASE value = "copy" -> assignAction(w, h, value, "copy")
           [] value = "link" -> assignAction(w, h, value, "alias")
           [] value = "move" -> assignAction(w, h, value, "move")
           [] value = "none" -> assignAction(w, h, value, "no-drop")
           [] OTHER -> w

\* The payload _data is an object without prototype: its own keys in
\* insertion order, each with a value.
HasKey(data, mime) == \E i \in 1..Len(data) : data[i].mime = mime

\* DragData.types()
types(data) == [i \in 1..Len(data) |-> data[i].mime]

\* DragData.getData(mime)
getData(data, mime) ==
    IF HasKey(data, mime)
    THEN (CHOOSE e \in {data[i] : i \in 1..Len(data)} : e.mime = mime).value
    ELSE "undefined"

\* Faulty variant of setData: every call adds an entry.
setDataAppend(w, h, mime, value) ==
    [w EXCEPT !.drag[h].dragData.data = Append(@, [mime |-> mime, value |-> value])]

\* DragData.setData(mime, data)
setData(w, h, mime, value) ==
    LET data == w.drag[h].dragData.data
    IN  IF HasKey(data, mime)
        THEN LET i == CHOOSE k \in 1..Len(data) : data[k].mime = mime
             IN  [w EXCEPT !.drag[h].dragData.data[i].value = value]
        ELSE [w EXCEPT !.drag[h].dragData.data = Append(data, [mime |-> mime, value |-> value])]

\* DragData.clearData(mime)
clearData(w, h, mime) ==
    [w EXCEPT !.drag[h].dragData.data = SelectSeq(@, LAMBDA e : e.mime # mime)]

----------------------------------------------------------------------------
(* Callback dispatch *)

\* handler.cb.call(context, event, data) when the slot is not null.  The entry
\* A callback that throws ends the handling of the event there: nothing that
\* follows in the same handler runs, up to a finally block.  The entry
\* added to calls records the callback, the handler it belongs to, whether a
\* function was there to invoke, and what the callback finds: the drag data,
\* the document cursor, the position of the ghost, and which drop records are
\* entered and which have a cached rect.
dispatch(w, h, cb, target, slot) ==
    LET entry == [cb |-> cb, on |-> target, invoked |-> slot # "null",
                  action |-> w.drag[h].dragData.action,
                  live |-> w.drag[h].dragData.live,
                  cursor |-> w.cursor,
                  ghost |-> <<w.drag[h].dragData.ghostX, w.drag[h].dragData.ghostY>>,
                  entered |-> {w.registry[i].handler : i \in {j \in 1..Len(w.registry) : w.registry[j].entered}},
                  cached |-> {w.registry[i].handler : i \in {j \in 1..Len(w.registry) : w.registry[j].rect.set}}]
        w1 == [w EXCEPT !.calls = Append(@, entry)]
    IN  IF w.threw THEN w
        ELSE IF slot = "throw" THEN [w1 EXCEPT !.threw = TRUE]
        ELSE IF slot \in {"null", "keep"} THEN w1
        ELSE setDropAction(w1, h, slot)

runDragStart(w, h) == dispatch(w, h, "onDragStart", h, w.drag[h].onDragStart)

runDrag(w, h) == dispatch(w, h, "onDrag", h, w.drag[h].onDrag)

runDragEnd(w, h) == dispatch(w, h, "onDragEnd", h, w.drag[h].onDragEnd)

runDragEnter(w, d, h) == dispatch(w, h, "onDragEnter", d, w.drop[d].onDragEnter)

\* Faulty variant of runDragOver: a missing callback sets dropAction to 'none'.
runDragOverNoneIfMissing(w, d, h) ==
    IF w.drop[d].onDragOver # "null"
    THEN dispatch(w, h, "onDragOver", d, w.drop[d].onDragOver)
    ELSE setDropAction(dispatch(w, h, "onDragOver", d, "null"), h, "none")

\* Run a drop handler's drag over event handler, if it exists.
runDragOver(w, d, h) == dispatch(w, h, "onDragOver", d, w.drop[d].onDragOver)

\* Faulty variant of runDragLeave: dropAction is set to 'none' before the
\* callback runs, not after.
runDragLeaveNoneFirst(w, d, h) ==
    dispatch(setDropAction(w, h, "none"), h, "onDragLeave", d, w.drop[d].onDragLeave)

\* Faulty variant of runDragLeave: dropAction is left as the callback set it.
runDragLeaveKeepAction(w, d, h) == dispatch(w, h, "onDragLeave", d, w.drop[d].onDragLeave)

\* Run a drop handler's drag leave event handler, if it exists, and set the
\* drop action to 'none'.
runDragLeave(w, d, h) ==
    LET w1 == dispatch(w, h, "onDragLeave", d, w.drop[d].onDragLeave)
    IN  IF w1.threw THEN w1 ELSE setDropAction(w1, h, "none")

\* Faulty variant of runDrop: a missing drop callback leaves dropAction alone.
runDropKeepAction(w, d, h) == dispatch(w, h, "onDrop", d, w.drop[d].onDrop)

\* Run a drop handler's drop event handler, if it exists.
runDrop(w, d, h) ==
    IF w.drop[d].onDrop # "null"
    THEN dispatch(w, h, "onDrop", d, w.drop[d].onDrop)
    ELSE setDropAction(dispatch(w, h, "onDrop", d, "null"), h, "none")

----------------------------------------------------------------------------
(* The drop registry *)

\* Create a drop record for the given drop handler.
createDropRecord(d) == [handler |-> d, entered |-> FALSE, rect |-> NullRect]

\* Invalidate the cached drop record data: the loop over the records.
RECURSIVE invalidateFrom(_, _)
invalidateFrom(reg, i) ==
    IF i > Len(reg) THEN <<>>
    ELSE <<[reg[i] EXCEPT !.entered = FALSE, !.rect = NullRect]>>
         \o invalidateFrom(reg, i + 1)

invalidateCachedDropData(w) ==
    [w EXCEPT !.registry = invalidateFrom(w.registry, 1)]

\* Faulty variant of leaveStep: the rect is read from the node on every
\* dispatch.
leaveStepReread(w, i, h, x, y) ==
    LET d  == w.registry[i].handler
        w1 == [w EXCEPT !.registry[i].rect = w.drop[d].rect]
    IN  IF ~w1.registry[i].entered THEN w1
        ELSE IF ~hitTestRect(w1.registry[i].rect, x, y)
             THEN runDragLeave([w1 EXCEPT !.registry[i].entered = FALSE], d, h)
             ELSE w1

\* The body of the first loop of runDropHandlers, for the i-th record.
leaveStep(w, i, h, x, y) ==
    LET d  == w.registry[i].handler
        w1 == IF ~w.registry[i].rect.set
              THEN [w EXCEPT !.registry[i].rect = w.drop[d].rect]
              ELSE w
    IN  IF w.threw THEN w
        ELSE IF ~w1.registry[i].entered THEN w1
        ELSE IF ~hitTestRect(w1.registry[i].rect, x, y)
             THEN runDragLeave([w1 EXCEPT !.registry[i].entered = FALSE], d, h)
             ELSE w1

\* Faulty variant of otherStep: drag-enter is dispatched on every matching
\* tick, without looking at record.entered.
otherStepReenter(w, i, action, h, x, y) ==
    LET d == w.registry[i].handler
    IN  IF hitTestRect(w.registry[i].rect, x, y)
        THEN LET w1 == runDragEnter([w EXCEPT !.registry[i].entered = TRUE], d, h)
             IN  IF action = "Drag" THEN runDragOver(w1, d, h)
                 ELSE IF action = "Drop" THEN runDrop(w1, d, h)
                 ELSE w1
        ELSE w

\* Faulty variant of otherStep: the tick that enters a record does not also
\* dispatch drag-over to it.
otherStepEnterOnly(w, i, action, h, x, y) ==
    LET d == w.registry[i].handler
    IN  IF hitTestRect(w.registry[i].rect, x, y)
        THEN IF ~w.registry[i].entered /\ action = "Drag"
             THEN runDragEnter([w EXCEPT !.registry[i].entered = TRUE], d, h)
             ELSE LET w1 == IF ~w.registry[i].entered
                            THEN runDragEnter([w EXCEPT !.registry[i].entered = TRUE], d, h)
                            ELSE w
                  IN  IF action = "Drag" THEN runDragOver(w1, d, h)
                      ELSE IF action = "Drop" THEN runDrop(w1, d, h)
                      ELSE w1
        ELSE w

\* Faulty variant of otherStep: a drop on a record that is not entered does
\* not enter it first.
otherStepDropUnentered(w, i, action, h, x, y) ==
    LET d == w.registry[i].handler
    IN  IF hitTestRect(w.registry[i].rect, x, y)
        THEN IF action = "Drag"
             THEN runDragOver(IF ~w.registry[i].entered
                              THEN runDragEnter([w EXCEPT !.registry[i].entered = TRUE], d, h)
                              ELSE w, d, h)
             ELSE IF action = "Drop" THEN runDrop(w, d, h)
             ELSE w
        ELSE w

\* The body of the second loop of runDropHandlers, for the i-th record.
otherStep(w, i, action, h, x, y) ==
    LET d == w.registry[i].handler
    IN  IF w.threw THEN w
        ELSE IF hitTestRect(w.registry[i].rect, x, y)
        THEN LET w1 == IF ~w.registry[i].entered
                       THEN runDragEnter([w EXCEPT !.registry[i].entered = TRUE], d, h)
                       ELSE w
             IN  IF action = "Drag" THEN runDragOver(w1, d, h)
                 ELSE IF action = "Drop" THEN runDrop(w1, d, h)
                 ELSE w1
        ELSE w

RECURSIVE leaveLoop(_, _, _, _, _)
leaveLoop(w, i, h, x, y) ==
    IF i > Len(w.registry) THEN w
    ELSE leaveLoop(leaveStep(w, i, h, x, y), i + 1, h, x, y)

\* Faulty variant of otherLoop: only the first record that contains the
\* pointer is dispatched to.
RECURSIVE otherLoopFirstMatch(_, _, _, _, _, _)
otherLoopFirstMatch(w, i, action, h, x, y) ==
    IF i > Len(w.registry) THEN w
    ELSE IF hitTestRect(w.registry[i].rect, x, y)
         THEN otherStep(w, i, action, h, x, y)
         ELSE otherLoopFirstMatch(w, i + 1, action, h, x, y)

\* Faulty variant of otherLoop: the records are visited from the last to the
\* first.
RECURSIVE otherLoopBackwards(_, _, _, _, _, _)
otherLoopBackwards(w, i, action, h, x, y) ==
    IF i > Len(w.registry) THEN w
    ELSE otherLoopBackwards(otherStep(w, Len(w.registry) - i + 1, action, h, x, y),
                            i + 1, action, h, x, y)

\* The second loop of runDropHandlers, from the i-th record on.
RECURSIVE otherLoop(_, _, _, _, _, _)
otherLoop(w, i, action, h, x, y) ==
    IF i > Len(w.registry) THEN w
    ELSE otherLoop(otherStep(w, i, action, h, x, y), i + 1, action, h, x, y)

\* Faulty variant of runDropHandlers: one loop that handles each record in
\* turn, its leave and its enter/over/drop together.
RECURSIVE onePassLoop(_, _, _, _, _, _)
onePassLoop(w, i, action, h, x, y) ==
    IF i > Len(w.registry) THEN w
    ELSE onePassLoop(otherStep(leaveStep(w, i, h, x, y), i, action, h, x, y),
                     i + 1, action, h, x, y)

runDropHandlersOnePass(w, action, h, x, y) == onePassLoop(w, 1, action, h, x, y)

\* Run the relevant drop handlers: all drag leave events first, then all
\* other drag events.
runDropHandlers(w, action, h, x, y) ==
    otherLoop(leaveLoop(w, 1, h, x, y), 1, action, h, x, y)

----------------------------------------------------------------------------
(* DropHandler *)

\* Faulty variant of dropDispose: the drop record stays in the registry.
dropDisposeKeepRecord(w, d) ==
    [w EXCEPT !.drop[d].onDragEnter = "null",
              !.drop[d].onDragOver = "null",
              !.drop[d].onDragLeave = "null",
              !.drop[d].onDrop = "null",
              !.drop[d].disposed = TRUE]

\* DropHandler.dispose()
dropDispose(w, d) ==
    [w EXCEPT !.registry = SelectSeq(@, LAMBDA r : r.handler # d),
              !.drop[d].onDragEnter = "null",
              !.drop[d].onDragOver = "null",
              !.drop[d].onDragLeave = "null",
              !.drop[d].onDrop = "null",
              !.drop[d].disposed = TRUE]

----------------------------------------------------------------------------
(* DragHandler *)

\* document.addEventListener('mousemove' / 'mouseup', this, true): adding a
\* listener that is already there does nothing.
addDocListeners(w, h) ==
    IF InSeq(h, w.docListeners) THEN w
    ELSE [w EXCEPT !.docListeners = Append(@, h)]

removeDocListeners(w, h) == [w EXCEPT !.docListeners = Without(@, h)]

\* Faulty variant of disposeDragData: the cursor override is not disposed.
disposeDragDataKeepOverride(w, h) ==
    LET data == w.drag[h].dragData
    IN  IF ~data.live THEN w
        ELSE [w EXCEPT !.drag[h].dragData = NoDragData,
                       !.ghosts[h] = @ - 1]

\* Dispose of the resources held by the drag data.
disposeDragData(w, h) ==
    LET data == w.drag[h].dragData
    IN  IF ~data.live THEN w
        ELSE disposeOverride(
                 [w EXCEPT !.drag[h].dragData = NoDragData,
                           !.ghosts[h] = @ - 1],
                 data.override)

\* Faulty variant of dispose: the drag data is left alone.
disposeKeepDragData(w, h) ==
    LET w1 == removeDocListeners(w, h)
    IN  IF w1.drag[h].disposed THEN [w1 EXCEPT !.threw = TRUE]
        ELSE [w1 EXCEPT !.drag[h].disposed = TRUE,
                        !.drag[h].onDragStart = "null",
                        !.drag[h].onDrag = "null",
                        !.drag[h].onDragEnd = "null"]

\* DragHandler.dispose().  On a handler that is already disposed _node is
\* null, and this._node.removeEventListener raises a TypeError after the
\* document listeners were removed.
dispose(w, h) ==
    LET w1 == removeDocListeners(w, h)
    IN  IF w1.drag[h].disposed THEN [w1 EXCEPT !.threw = TRUE]
        ELSE LET w2 == disposeDragData([w1 EXCEPT !.drag[h].disposed = TRUE], h)
             IN  [w2 EXCEPT !.drag[h].onDragStart = "null",
                            !.drag[h].onDrag = "null",
                            !.drag[h].onDragEnd = "null"]

\* Faulty variant of start: the threshold stays in force.
startKeepThreshold(w, h, x, y) ==
    IF w.drag[h].dragData.live THEN w
    ELSE addDocListeners(
             [w EXCEPT !.drag[h].pressX = x, !.drag[h].pressY = y], h)

\* Faulty variant of start: a drag that is under way is given a new press
\* position.
startWhileActive(w, h, x, y) ==
    addDocListeners(
        [w EXCEPT !.drag[h].pressX = x,
                  !.drag[h].pressY = y,
                  !.drag[h].ignoreThreshold = TRUE], h)

\* DragHandler.start(clientX, clientY)
start(w, h, x, y) ==
    IF w.drag[h].dragData.live THEN w
    ELSE addDocListeners(
             [w EXCEPT !.drag[h].pressX = x,
                       !.drag[h].pressY = y,
                       !.drag[h].ignoreThreshold = TRUE], h)

\* Faulty variant of evtMouseDown: the button is not looked at.
evtMouseDownAnyButton(w, h, button, x, y) ==
    IF w.drag[h].dragData.live THEN w
    ELSE addDocListeners(
             [w EXCEPT !.drag[h].pressX = x, !.drag[h].pressY = y], h)

\* DragHandler._evtMouseDown
evtMouseDown(w, h, button, x, y) ==
    IF w.drag[h].dragData.live THEN w
    ELSE IF button # 0 THEN w
    ELSE addDocListeners(
             [w EXCEPT !.drag[h].pressX = x, !.drag[h].pressY = y], h)

\* Faulty variant of dragTick: the drag handler runs before the drop handlers.
dragTickDragFirst(w, h, x, y) ==
    LET w1 == [w EXCEPT !.drag[h].dragData.ghostX = x,
                        !.drag[h].dragData.ghostY = y]
    IN  runDropHandlers(runDrag(w1, h), "Drag", h, x, y)

\* The part of _evtMouseMove that runs on every move of a started drag:
\* move the ghost, run the drop handlers, run the drag handler.
dragTick(w, h, x, y) ==
    LET w1 == [w EXCEPT !.drag[h].dragData.ghostX = x,
                        !.drag[h].dragData.ghostY = y]
    IN  IF w.threw THEN w
        ELSE runDrag(runDropHandlers(w1, "Drag", h, x, y), h)

\* Faulty variant of beginDrag: the cached drop data is not invalidated.
beginDragNoInvalidate(w, h, x, y) ==
    IF w.drag[h].disposed THEN [w EXCEPT !.threw = TRUE]
    ELSE LET w2 == newDragData(w, h)
             w3 == [w2 EXCEPT !.ghosts[h] = @ + 1]
         IN  dragTick(runDragStart(w3, h), h, x, y)

\* Faulty variant of beginDrag: the cached drop data is invalidated after the
\* drag start handler has run.
beginDragInvalidateLate(w, h, x, y) ==
    IF w.drag[h].disposed THEN [invalidateCachedDropData(w) EXCEPT !.threw = TRUE]
    ELSE LET w2 == newDragData(w, h)
             w3 == [w2 EXCEPT !.ghosts[h] = @ + 1]
         IN  dragTick(invalidateCachedDropData(runDragStart(w3, h)), h, x, y)

\* The part of _evtMouseMove that starts the drag.  createGhost reads
\* this.node, which is null on a disposed handler: a TypeError, raised after
\* the cached drop data was invalidated.
beginDrag(w, h, x, y) ==
    LET w1 == invalidateCachedDropData(w)
    IN  IF w1.drag[h].disposed THEN [w1 EXCEPT !.threw = TRUE]
        ELSE LET w2 == newDragData(w1, h)
                 w3 == [w2 EXCEPT !.ghosts[h] = @ + 1]
             IN  dragTick(runDragStart(w3, h), h, x, y)

\* Faulty variant of underThreshold: the distance moved is compared with the
\* threshold, not the displacement in each axis.
underThresholdDistance(me, x, y) ==
    LET dx == Abs(x - me.pressX)
        dy == Abs(y - me.pressY)
    IN  dx * dx + dy * dy < DRAG_THRESHOLD * DRAG_THRESHOLD

\* Whether a move to (x, y) is still under the drag threshold.
underThreshold(me, x, y) ==
    LET dx == Abs(x - me.pressX)
        dy == Abs(y - me.pressY)
    IN  dx < DRAG_THRESHOLD /\ dy < DRAG_THRESHOLD

\* Faulty variant of evtMouseMove: a move past the threshold starts a drag
\* whether or not one is under way.
evtMouseMoveRestart(w, h, x, y) ==
    LET me == w.drag[h]
    IN  IF ~me.ignoreThreshold /\ underThreshold(me, x, y)
        THEN IF me.dragData.live THEN dragTick(w, h, x, y) ELSE w
        ELSE beginDrag(w, h, x, y)

\* DragHandler._evtMouseMove
evtMouseMove(w, h, x, y) ==
    LET me == w.drag[h]
    IN  IF ~me.dragData.live
        THEN IF ~me.ignoreThreshold /\ underThreshold(me, x, y) THEN w
             ELSE beginDrag(w, h, x, y)
        ELSE dragTick(w, h, x, y)

\* Faulty variant of evtMouseUp: the button is not looked at.
evtMouseUpAnyButton(w, h, button, x, y) ==
    LET w1 == removeDocListeners(w, h)
    IN  IF ~w1.drag[h].dragData.live THEN w1
        ELSE disposeDragData(
                 runDragEnd(runDropHandlers(w1, "Drop", h, x, y), h), h)

\* Faulty variant of evtMouseUp: the drag end handler runs before the drop
\* handlers.
evtMouseUpEndFirst(w, h, button, x, y) ==
    IF button # 0 THEN w
    ELSE LET w1 == removeDocListeners(w, h)
         IN  IF ~w1.drag[h].dragData.live THEN w1
             ELSE disposeDragData(
                      runDropHandlers(runDragEnd(w1, h), "Drop", h, x, y), h)

\* Faulty variant of evtMouseUp: without the finally block, the drag data is
\* disposed only when the handlers return.
evtMouseUpNoFinally(w, h, button, x, y) ==
    IF button # 0 THEN w
    ELSE LET w1 == removeDocListeners(w, h)
             w2 == runDragEnd(runDropHandlers(w1, "Drop", h, x, y), h)
         IN  IF ~w1.drag[h].dragData.live THEN w1
             ELSE IF w2.threw THEN w2
             ELSE disposeDragData(w2, h)

\* DragHandler._evtMouseUp.  The drop and end handlers run in a try block
\* whose finally block disposes the drag data.
evtMouseUp(w, h, button, x, y) ==
    IF button # 0 THEN w
    ELSE LET w1 == removeDocListeners(w, h)
         IN  IF ~w1.drag[h].dragData.live THEN w1
             ELSE disposeDragData(
                      runDragEnd(runDropHandlers(w1, "Drop", h, x, y), h), h)

\* The browser delivers a document event to every listener that was
\* registered when the dispatch began and has not been removed since.  An
\* exception raised by one listener is reported and the next listener runs.
Calling(w) == [w EXCEPT !.threw = FALSE]
Reported(w, after) == [after EXCEPT !.threw = w.threw \/ after.threw]

RECURSIVE deliverMove(_, _, _, _, _)
deliverMove(w, snapshot, i, x, y) ==
    IF i > Len(snapshot) THEN w
    ELSE deliverMove(IF InSeq(snapshot[i], w.docListeners)
                     THEN Reported(w, evtMouseMove(Calling(w), snapshot[i], x, y))
                     ELSE w,
                     snapshot, i + 1, x, y)

RECURSIVE deliverUp(_, _, _, _, _, _)
deliverUp(w, snapshot, i, button, x, y) ==
    IF i > Len(snapshot) THEN w
    ELSE deliverUp(IF InSeq(snapshot[i], w.docListeners)
                   THEN Reported(w, evtMouseUp(Calling(w), snapshot[i], button, x, y))
                   ELSE w,
                   snapshot, i + 1, button, x, y)

----------------------------------------------------------------------------
(* The drop data of native drag events *)

\* The state the three functions work on, the value returned and whether an
\* exception was raised.
DropDataWorld ==
    [dropCache |-> dropCache, dataTransfer |-> dataTransfer,
     result |-> "undefined", threw |-> FALSE]

\* An object without own properties, as far as the MIME types used go.
EmptyObject == [m \in Mimes |-> "undefined"]

\* getDropData(event, mime).  An event without id is looked up under -1,
\* which is no key of the cache.
getDropData(c, e, mime) ==
    LET id == c.dataTransfer[e]
    IN  [c EXCEPT !.result = IF id \in DOMAIN c.dropCache.data
                             THEN c.dropCache.data[id][mime]
                             ELSE "undefined"]

\* The assignment dropCache.data[id][mime] = data: a TypeError when
\* dropCache.data[id] is undefined.
storeDropData(c, id, mime, data) ==
    IF id \in DOMAIN c.dropCache.data
    THEN [c EXCEPT !.dropCache.data[id][mime] = data]
    ELSE [c EXCEPT !.threw = TRUE]

\* setDropData(event, mime, data).  The id drag-n is modelled by n.
setDropData(c, e, mime, data) ==
    LET id == c.dataTransfer[e]
    IN  IF id = NoId
        THEN LET n == c.dropCache.id
                 c1 == [c EXCEPT !.dropCache.id = n + 1,
                                 !.dataTransfer[e] = n,
                                 !.dropCache.data =
                                     [i \in DOMAIN @ \cup {n} |->
                                         IF i = n THEN EmptyObject ELSE @[i]]]
             IN  storeDropData(c1, n, mime, data)
        ELSE storeDropData(c, id, mime, data)

\* clearDropData(event)
clearDropData(c, e) ==
    LET id == c.dataTransfer[e]
    IN  [c EXCEPT !.dropCache.data = [i \in DOMAIN @ \ {id} |-> @[i]]]

----------------------------------------------------------------------------
(* sizeLimits *)

\* JavaScript numbers as far as sizeLimits needs them: an integer, NaN or
\* Infinity.
Num(n) == [kind |-> "int", n |-> n]
NaN == [kind |-> "NaN", n |-> 0]
Infinity == [kind |-> "Infinity", n |-> 0]

\* Strings are sequences of one-character strings.
DecimalDigits == <<"0", "1", "2", "3", "4", "5", "6", "7", "8", "9">>
IsDigit(c) == \E i \in 1..10 : DecimalDigits[i] = c
DigitValue(c) == (CHOOSE i \in 1..10 : DecimalDigits[i] = c) - 1

RECURSIVE skipWhiteSpace(_)
skipWhiteSpace(s) ==
    IF s # <<>> /\ Head(s) = " " THEN skipWhiteSpace(Tail(s)) ELSE s

\* The longest prefix of decimal digits, as a number; NaN when it is empty.
RECURSIVE parseDigits(_, _, _)
parseDigits(s, seen, acc) ==
    IF s # <<>> /\ IsDigit(Head(s))
    THEN parseDigits(Tail(s), TRUE, 10 * acc + DigitValue(Head(s)))
    ELSE IF seen THEN Num(acc) ELSE NaN

\* parseInt(string, 10)
parseInt(s) ==
    LET t == skipWhiteSpace(s)
        negative == t # <<>> /\ Head(t) = "-"
        u == IF t # <<>> /\ Head(t) \in {"-", "+"} THEN Tail(t) ELSE t
        r == parseDigits(u, FALSE, 0)
    IN  IF r.kind = "int" /\ negative THEN Num(0 - r.n) ELSE r

\* a || b on numbers: NaN and 0 are falsy.
orElse(a, b) ==
    IF a.kind = "NaN" \/ (a.kind = "int" /\ a.n = 0) THEN b ELSE a

\* sizeLimits(node), cstyle being the node's computed style
sizeLimits(cstyle) ==
    [minWidth |-> orElse(parseInt(cstyle.minWidth), Num(0)),
     minHeight |-> orElse(parseInt(cstyle.minHeight), Num(0)),
     maxWidth |-> orElse(parseInt(cstyle.maxWidth), Infinity),
     maxHeight |-> orElse(parseInt(cstyle.maxHeight), Infinity)]

\* Values a computed min-/max- width or height can have: the initial values
\* none, auto and 0px, pixel lengths (whole and fractional), a percentage,
\* and the empty string of a node that is not rendered.
StyleValues ==
    {<<"n", "o", "n", "e">>, <<"a", "u", "t", "o">>, <<>>,
     <<"0", "p", "x">>, <<"9", "0", "p", "x">>,
     <<"1", "2", ".", "5", "p", "x">>, <<"5", "0", "%">>}

ComputedStyles ==
    [minWidth : StyleValues, minHeight : StyleValues,
     maxWidth : StyleValues, maxHeight : StyleValues]

----------------------------------------------------------------------------
(* The autostart variant of DragHandler, and the drop dispatch beside it *)

NoVariantData ==
    [live |-> FALSE, started |-> FALSE, ghost |-> FALSE, startX |-> 0, startY |-> 0,
     ghostX |-> 0, ghostY |-> 0]

\* new DragHandler(node, context) of the variant, autostart and the two
\* callbacks assigned (or not), and one new DropHandler(node, context) with
\* all its callbacks assigned.
newVariant(autostart, assigned) ==
    [autostart |-> autostart, onDragStart |-> assigned, onDragEnd |-> assigned,
     dragData |-> NoVariantData, listening |-> FALSE, ghosts |-> 0,
     droppable |-> [entered |-> FALSE, rect |-> NullRect],
     calls |-> <<>>, threw |-> FALSE,
     last |-> [type |-> "none", button |-> 0, x |-> 0, y |-> 0]]

variantCall(v, cb) == [v EXCEPT !.calls = Append(@, cb)]

\* DropHandler.deploy(action, event, dragData), for the one registered target
\* (its node has the client rect RectA).
deploy(v, action, x, y) ==
    LET v1 == IF ~v.droppable.rect.set THEN [v EXCEPT !.droppable.rect = RectA] ELSE v
        r == v1.droppable.rect
    IN  IF x >= r.left /\ y >= r.top /\ x < r.right /\ y < r.bottom
        THEN LET v2 == IF ~v1.droppable.entered
                       THEN variantCall([v1 EXCEPT !.droppable.entered = TRUE], "onDragEnter")
                       ELSE v1
             IN  IF action = "drag" THEN variantCall(v2, "onDrag")
                 ELSE IF action = "drop" THEN variantCall(v2, "onDrop")
                 ELSE v2
        ELSE IF v1.droppable.entered
             THEN variantCall([v1 EXCEPT !.droppable.entered = FALSE], "onDragLeave")
             ELSE v1

\* DragHandler.startDrag(event).  With no press under way _dragData is null
\* and reading its started field raises a TypeError.
startDrag(v) ==
    IF ~v.dragData.live THEN [v EXCEPT !.threw = TRUE]
    ELSE IF v.dragData.started THEN v
    ELSE LET v1 == [v EXCEPT !.dragData.started = TRUE,
                             !.dragData.ghost = TRUE,
                             !.ghosts = @ + 1]
         IN  IF v1.onDragStart THEN variantCall(v1, "onDragStart") ELSE v1

\* DragHandler._evtMouseDown of the variant
variantMouseDown(v, button, x, y) ==
    IF button # 0 THEN v
    ELSE [v EXCEPT !.listening = TRUE,
                   !.dragData = [NoVariantData EXCEPT !.live = TRUE,
                                                      !.startX = x, !.startY = y]]

\* The rest of _evtMouseMove once the drag is started.
variantTick(v, x, y) ==
    deploy([v EXCEPT !.dragData.ghostX = x - 10, !.dragData.ghostY = y - 10], "drag", x, y)

\* Faulty variant of variantMouseMove: the autostart flag is not looked at.
variantMouseMoveAlwaysAuto(v, x, y) ==
    IF ~v.dragData.started
    THEN LET dx == Abs(x - v.dragData.startX)
             dy == Abs(y - v.dragData.startY)
         IN  IF dx * dx + dy * dy >= 5 * 5
             THEN variantTick(startDrag(v), x, y)
             ELSE v
    ELSE variantTick(v, x, y)

\* DragHandler._evtMouseMove of the variant (dragThreshold is 5)
variantMouseMove(v, x, y) ==
    IF ~v.dragData.started
    THEN IF ~v.autostart THEN v
         ELSE LET dx == Abs(x - v.dragData.startX)
                  dy == Abs(y - v.dragData.startY)
              IN  IF dx * dx + dy * dy >= 5 * 5
                  THEN variantTick(startDrag(v), x, y)
                  ELSE v
    ELSE variantTick(v, x, y)

\* DragHandler._evtMouseUp of the variant
variantMouseUp(v, x, y) ==
    LET v1 == [v EXCEPT !.listening = FALSE]
        v2 == IF ~v1.dragData.started THEN v1
              ELSE LET v3 == IF v1.dragData.ghost THEN [v1 EXCEPT !.ghosts = @ - 1] ELSE v1
                       v4 == deploy(v3, "drop", x, y)
                   IN  IF v4.onDragEnd THEN variantCall(v4, "onDragEnd") ELSE v4
    IN  [v2 EXCEPT !.dragData = NoVariantData]

----------------------------------------------------------------------------
(* The state machine *)

\* The callback functions the application assigns, per handler.
DragProfiles ==
    {[onDragStart |-> "keep", onDrag |-> "keep", onDragEnd |-> "keep"],
     [onDragStart |-> "null", onDrag |-> "null", onDragEnd |-> "null"]}

\* Target A assigns all four drop callbacks, each setting a dropAction of its
\* own; target B assigns onDragEnter only.
ProfileA ==
    [onDragEnter |-> "copy", onDragOver |-> "move", onDragLeave |-> "link", onDrop |-> "link"]
ProfileB ==
    [onDragEnter |-> "copy", onDragOver |-> "null", onDragLeave |-> "null", onDrop |-> "null"]

\* The same handlers with callbacks that may throw: the onDragEnd of the
\* drag handler, the onDragLeave and onDrop of A, the onDragEnter of B.
ThrowDragProfiles ==
    {[onDragStart |-> "keep", onDrag |-> "keep", onDragEnd |-> e] : e \in {"keep", "throw"}}
ThrowProfilesA ==
    {[ProfileA EXCEPT !.onDragLeave = l, !.onDrop = d] :
        l \in {"link", "throw"}, d \in {"link", "throw"}}
ThrowProfilesB == {[ProfileB EXCEPT !.onDragEnter = e] : e \in {"copy", "throw"}}

\* new DragHandler(node, context), with its callbacks assigned.
newDragHandler(p) ==
    [pressX |-> -1, pressY |-> -1, ignoreThreshold |-> FALSE,
     dragData |-> NoDragData, disposed |-> FALSE,
     onDragStart |-> p.onDragStart, onDrag |-> p.onDrag, onDragEnd |-> p.onDragEnd]

\* new DropHandler(node, context) on a node with the given client rect, with
\* its callbacks assigned.
newDropHandler(r, p) ==
    [rect |-> r, disposed |-> FALSE,
     onDragEnter |-> p.onDragEnter, onDragOver |-> p.onDragOver,
     onDragLeave |-> p.onDragLeave, onDrop |-> p.onDrop]

NoEvent ==
    [type |-> "none", target |-> "none", button |-> 0, x |-> 0, y |-> 0, active |-> {},
     mime |-> "", value |-> ""]

NoHist == [origin |-> "none", qualified |-> 0, starts |-> 0]

\* The handlers that hold a DragData.
Active == {h \in DOMAIN drag : drag[h].dragData.live}

Event(type, target, button, x, y) ==
    [type |-> type, target |-> target, button |-> button, x |-> x, y |-> y,
     active |-> Active, mime |-> "", value |-> ""]

\* A call of a DragData method by the application, with its arguments.
DataCall(type, h, mime, value) ==
    [Event(type, h, 0, 0, 0) EXCEPT !.mime = mime, !.value = value]

\* The state after the construction of the drag handlers named by ids and of
\* the two drop handlers.
InitProfiles(ids, dragProfiles, profilesA, profilesB) ==
    /\ overrideID = 0
    /\ cursor = ""
    /\ overrideClass = FALSE
    /\ \E p \in dragProfiles : drag = [h \in ids |-> newDragHandler(p)]
    /\ ghosts = [h \in ids |-> 0]
    /\ \E rb \in {RectBAbutting, RectBOverlapping}, pa \in profilesA, pb \in profilesB :
          drop = [d \in DropIds |-> IF d = "A" THEN newDropHandler(RectA, pa)
                                               ELSE newDropHandler(rb, pb)]
    /\ registry \in {<<createDropRecord("A"), createDropRecord("B")>>,
                     <<createDropRecord("B"), createDropRecord("A")>>}
    /\ docListeners = <<>>
    /\ event = NoEvent
    /\ calls = <<>>
    /\ threw = FALSE
    /\ hist = [h \in ids |-> NoHist]
    /\ handles = <<>>
    /\ dropCache = [id |-> 0, data |-> <<>>]
    /\ dataTransfer = [e \in DragEvents |-> NoId]

InitWith(ids) == InitProfiles(ids, DragProfiles, {ProfileA}, {ProfileB})

NoProbe == [fn |-> "none"]

NoVariant == [autostart |-> TRUE]

Init == InitWith(DragIds) /\ probe = NoProbe /\ variant = NoVariant

\* The world a handler leaves behind becomes the next state.
Install(w) ==
    /\ w.overrideID <= MaxOverrideID
    /\ overrideID' = w.overrideID
    /\ cursor' = w.cursor
    /\ overrideClass' = w.overrideClass
    /\ drag' = w.drag
    /\ ghosts' = w.ghosts
    /\ registry' = w.registry
    /\ drop' = w.drop
    /\ docListeners' = w.docListeners
    /\ calls' = w.calls
    /\ threw' = w.threw

Min(a, b) == IF a < b THEN a ELSE b

\* How many times a call sequence invoked the onDragStart callback of h.
StartsIn(cs, h) ==
    Cardinality({i \in 1..Len(cs) :
                    cs[i].cb = "onDragStart" /\ cs[i].on = h /\ cs[i].invoked})

\* A press takes effect: what has happened since the last press starts afresh.
Pressed(h, origin) == [hist EXCEPT ![h] = [origin |-> origin, qualified |-> 0, starts |-> 0]]

\* The origin of the gesture after a mousedown: a mousedown on a handler that
\* is already listening for moves continues the gesture that is under way,
\* from a new press point.
DownOrigin(h) == IF InSeq(h, docListeners) THEN hist[h].origin ELSE "mousedown"

\* A move was delivered: count it if it reaches the threshold from the press
\* point, and count the drag start callbacks it invoked (both up to 2).
Moved(w, x, y) ==
    [h \in DOMAIN hist |->
        IF InSeq(h, docListeners)
        THEN [hist[h] EXCEPT
                !.qualified = Min(2, @ + IF Reaches5(drag[h].pressX, drag[h].pressY, x, y)
                                         THEN 1 ELSE 0),
                !.starts = Min(2, @ + StartsIn(w.calls, h))]
        ELSE hist[h]]

\* A mousedown on the node of a drag handler (its listener is removed on dispose).
MouseDown(h, button, p) ==
    /\ ~drag[h].disposed
    /\ Install(evtMouseDown(World, h, button, p[1], p[2]))
    /\ event' = Event("mousedown", h, button, p[1], p[2])
    /\ hist' = IF button = 0 /\ ~drag[h].dragData.live THEN Pressed(h, DownOrigin(h)) ELSE hist
    /\ UNCHANGED <<handles, probe, variant, dropCache, dataTransfer>>

\* A mousemove on the document, while some drag handler listens for it.
MouseMove(p) ==
    /\ docListeners # <<>>
    /\ LET w == deliverMove(World, docListeners, 1, p[1], p[2])
       IN  /\ Install(w)
           /\ hist' = Moved(w, p[1], p[2])
    /\ event' = Event("mousemove", "document", 0, p[1], p[2])
    /\ UNCHANGED <<handles, probe, variant, dropCache, dataTransfer>>

\* A mouseup on the document, while some drag handler listens for it.
MouseUp(button, p) ==
    /\ docListeners # <<>>
    /\ Install(deliverUp(World, docListeners, 1, button, p[1], p[2]))
    /\ event' = Event("mouseup", "document", button, p[1], p[2])
    /\ UNCHANGED hist
    /\ UNCHANGED <<handles, probe, variant, dropCache, dataTransfer>>

\* The application calls handler.start(clientX, clientY).
Start(h, p) ==
    /\ Install(start(World, h, p[1], p[2]))
    /\ event' = Event("start", h, 0, p[1], p[2])
    /\ hist' = IF ~drag[h].dragData.live THEN Pressed(h, "start") ELSE hist
    /\ UNCHANGED <<handles, probe, variant, dropCache, dataTransfer>>

\* The application disposes a drag handler.
DisposeDrag(h) ==
    /\ Install(dispose(World, h))
    /\ event' = Event("dispose", h, 0, 0, 0)
    /\ UNCHANGED hist
    /\ UNCHANGED <<handles, probe, variant, dropCache, dataTransfer>>

\* The application disposes a drop handler.
DisposeDrop(d) ==
    /\ Install(dropDispose(World, d))
    /\ event' = Event("dropDispose", d, 0, 0, 0)
    /\ UNCHANGED hist
    /\ UNCHANGED <<handles, probe, variant, dropCache, dataTransfer>>

\* The gestures of one drag handler over a fixed set of drop targets.
Next ==
    \/ \E h \in DOMAIN drag, i \in DownInputs : MouseDown(h, i[1], i[2])
    \/ \E p \in Points : MouseMove(p)
    \/ \E i \in UpInputs : MouseUp(i[1], i[2])
    \/ \E h \in DOMAIN drag, p \in PressPoints : Start(h, p)
    \/ \E h \in DOMAIN drag : DisposeDrag(h)

Spec == Init /\ [][Next]_vars

\* The same, with drop targets disposed along the way.
NextDispose ==
    \/ Next
    \/ \E d \in DOMAIN drop : DisposeDrop(d)

SpecDispose == Init /\ [][NextDispose]_vars

\* Two drag handlers on two nodes: presses and programmatic starts on either,
\* and the document events that follow.
NextTwo ==
    \/ \E h \in DOMAIN drag : MouseDown(h, 0, <<0, 0>>)
    \/ \E h \in DOMAIN drag : Start(h, <<0, 0>>)
    \/ \E p \in DataPoints : MouseMove(p)
    \/ \E p \in DataPoints : MouseUp(0, p)

SpecTwo ==
    InitWith(TwoDragIds) /\ probe = NoProbe /\ variant = NoVariant /\ [][NextTwo]_vars

\* The application calls sizeLimits(node) on a node with some computed style.
SizeProbes ==
    [fn : {"sizeLimits"}, done : {FALSE}, cstyle : ComputedStyles,
     result : {[minWidth |-> NaN, minHeight |-> NaN, maxWidth |-> NaN, maxHeight |-> NaN]}]

SizeLimits ==
    /\ probe.fn = "sizeLimits" /\ ~probe.done
    /\ probe' = [probe EXCEPT !.done = TRUE, !.result = sizeLimits(probe.cstyle)]
    /\ UNCHANGED <<progVars, event, calls, threw, hist, handles, variant, dropCache, dataTransfer>>

SpecSize ==
    InitWith(DragIds) /\ probe \in SizeProbes /\ variant = NoVariant /\ [][SizeLimits]_vars

\* What a step of the variant starts from: the callbacks of the last step
\* are forgotten.
Variant == [variant EXCEPT !.calls = <<>>, !.threw = FALSE]

VariantStep(v, type, button, p) ==
    /\ variant' = [v EXCEPT !.last = [type |-> type, button |-> button, x |-> p[1], y |-> p[2]]]
    /\ UNCHANGED <<progVars, event, calls, threw, hist, handles, probe, dropCache, dataTransfer>>

\* A mousedown on the node of the variant's handler, no press being under way.
VariantMouseDown(button, p) ==
    /\ ~variant.listening
    /\ VariantStep(variantMouseDown(Variant, button, p[1], p[2]), "mousedown", button, p)

\* A mousemove on the document while the variant's handler listens.
VariantMouseMove(p) ==
    /\ variant.listening
    /\ VariantStep(variantMouseMove(Variant, p[1], p[2]), "mousemove", 0, p)

\* A mouseup on the document while the variant's handler listens.
VariantMouseUp(p) ==
    /\ variant.listening
    /\ VariantStep(variantMouseUp(Variant, p[1], p[2]), "mouseup", 0, p)

\* The application calls startDrag(event) with a mouse event at p.
VariantStartDrag(p) ==
    /\ p \in VariantPoints
    /\ VariantStep(startDrag(Variant), "startDrag", 0, p)

NextVariant ==
    \/ \E b \in {0, 1} : VariantMouseDown(b, <<0, 0>>)
    \/ \E p \in VariantPoints : VariantMouseMove(p)
    \/ \E p \in VariantPoints : VariantMouseUp(p)
    \/ \E p \in VariantPoints : VariantStartDrag(p)

SpecVariant ==
    /\ InitWith(DragIds) /\ probe = NoProbe
    /\ \E a \in BOOLEAN, c \in BOOLEAN : variant = newVariant(a, c)
    /\ [][NextVariant]_vars

\* The application calls hitTest(node, x, y) on each of two nodes with the
\* given client rects.
HitProbes ==
    [fn : {"hitTest"}, rect : HitRects, rect2 : HitRects, x : Coords, y : Coords,
     done : {FALSE}, result : {FALSE}, result2 : {FALSE}]

HitTest ==
    /\ probe.fn = "hitTest" /\ ~probe.done
    /\ probe' = [probe EXCEPT !.done = TRUE,
                              !.result = hitTest(probe.rect, probe.x, probe.y),
                              !.result2 = hitTest(probe.rect2, probe.x, probe.y)]
    /\ UNCHANGED <<progVars, event, calls, threw, hist, handles, variant, dropCache, dataTransfer>>

SpecHit ==
    InitWith(DragIds) /\ probe \in HitProbes /\ variant = NoVariant /\ [][HitTest]_vars

\* The application calls overrideCursor(c) and keeps the disposable.
OverrideCursor(c) ==
    /\ Len(handles) < MaxHandles
    /\ LET w == overrideCursor(World, c)
       IN  /\ Install(w)
           /\ handles' = Append(handles, [id |-> w.overrideID, cursor |-> c, disposed |-> FALSE])
    /\ event' = Event("overrideCursor", "document", 0, 0, 0)
    /\ UNCHANGED <<hist, probe, variant, dropCache, dataTransfer>>

\* The application disposes the i-th disposable it holds.  A disposable runs
\* its callback on the first dispose only.
DisposeOverride(i) ==
    /\ Install(IF handles[i].disposed THEN World
               ELSE disposeOverride(World, handles[i].id))
    /\ handles' = [handles EXCEPT ![i].disposed = TRUE]
    /\ event' = Event("disposeOverride", "document", 0, 0, 0)
    /\ UNCHANGED <<hist, probe, variant, dropCache, dataTransfer>>

\* An application that only overrides the cursor.
NextCursor ==
    \/ \E c \in Cursors : OverrideCursor(c)
    \/ \E i \in 1..Len(handles) : DisposeOverride(i)

SpecCursor == Init /\ [][NextCursor]_vars

\* Code that holds the DragData of an active drag (a callback received it)
\* assigns data.dropAction.
AssignDropAction(h, value) ==
    /\ drag[h].dragData.live
    /\ Install(setDropAction(World, h, value))
    /\ event' = DataCall("dropAction", h, "", value)
    /\ UNCHANGED <<hist, handles, probe, variant, dropCache, dataTransfer>>

\* ... calls data.setData(mime, value)
SetData(h, mime, value) ==
    /\ drag[h].dragData.live
    /\ Install(setData(World, h, mime, value))
    /\ event' = DataCall("setData", h, mime, value)
    /\ UNCHANGED <<hist, handles, probe, variant, dropCache, dataTransfer>>

\* ... calls data.clearData(mime)
ClearData(h, mime) ==
    /\ drag[h].dragData.live
    /\ Install(clearData(World, h, mime))
    /\ event' = DataCall("clearData", h, mime, "")
    /\ UNCHANGED <<hist, handles, probe, variant, dropCache, dataTransfer>>

\* Programmatic drags that go outside the targets and into A, with the
\* application using the DragData between the events.
NextData ==
    \/ \E h \in DOMAIN drag : Start(h, <<0, 0>>)
    \/ \E p \in DataPoints : MouseMove(p)
    \/ \E p \in DataPoints : MouseUp(0, p)
    \/ \E h \in DOMAIN drag, v \in AssignedValues : AssignDropAction(h, v)
    \/ \E h \in DOMAIN drag, m \in Mimes, v \in PayloadValues : SetData(h, m, v)
    \/ \E h \in DOMAIN drag, m \in Mimes : ClearData(h, m)

SpecData == Init /\ [][NextData]_vars

\* Drags begun with start(), with callbacks that may throw.
ThrowPoints == {<<0, 0>>, <<5, 0>>, <<10, 0>>}

NextThrow ==
    \/ \E h \in DOMAIN drag : Start(h, <<0, 0>>)
    \/ \E p \in ThrowPoints : MouseMove(p)
    \/ \E p \in ThrowPoints : MouseUp(0, p)

SpecThrow ==
    /\ InitProfiles(DragIds, ThrowDragProfiles, ThrowProfilesA, ThrowProfilesB)
    /\ probe = NoProbe /\ variant = NoVariant
    /\ [][NextThrow]_vars

\* The application calls setDropData, getDropData or clearDropData on a
\* native drag event.
DropDataStep(c, type, e, mime, value) ==
    /\ dropCache' = c.dropCache
    /\ dataTransfer' = c.dataTransfer
    /\ event' = [DataCall(type, e, mime, value) EXCEPT !.value = IF type = "getDropData" THEN c.result ELSE value]
    /\ calls' = <<>>
    /\ threw' = c.threw
    /\ UNCHANGED <<progVars, hist, handles, probe, variant>>

SetDropData(e, mime, value) ==
    /\ dataTransfer[e] # NoId \/ dropCache.id < MaxDropId
    /\ DropDataStep(setDropData(DropDataWorld, e, mime, value), "setDropData", e, mime, value)

GetDropData(e, mime) ==
    /\ e \in DragEvents
    /\ DropDataStep(getDropData(DropDataWorld, e, mime), "getDropData", e, mime, "")

ClearDropData(e) ==
    /\ e \in DragEvents
    /\ DropDataStep(clearDropData(DropDataWorld, e), "clearDropData", e, "", "")

NextDropData ==
    \/ \E e \in DragEvents, m \in Mimes, v \in PayloadValues : SetDropData(e, m, v)
    \/ \E e \in DragEvents, m \in Mimes : GetDropData(e, m)
    \/ \E e \in DragEvents : ClearDropData(e)

SpecDropData == Init /\ [][NextDropData]_vars

\* The layout moves the node of a drop handler: getBoundingClientRect()
\* returns r from now on.
MoveNode(d, r) ==
    /\ drop[d].rect # r
    /\ drop' = [drop EXCEPT ![d].rect = r]
    /\ event' = Event("layout", d, 0, 0, 0)
    /\ calls' = <<>>
    /\ threw' = FALSE
    /\ UNCHANGED <<overrideID, cursor, overrideClass, drag, ghosts, registry, docListeners>>
    /\ UNCHANGED <<hist, handles, probe, variant, dropCache, dataTransfer>>

\* Drags begun with start(), while the nodes of the drop handlers move.
NextMove ==
    \/ \E h \in DOMAIN drag : Start(h, <<0, 0>>)
    \/ \E p \in DataPoints : MouseMove(p)
    \/ \E p \in DataPoints : MouseUp(0, p)
    \/ \E d \in DropIds, r \in NodeRects : MoveNode(d, r)

SpecMove == Init /\ [][NextMove]_vars

----------------------------------------------------------------------------
(* Vocabulary of the properties *)

DropCallbacks == {"onDragEnter", "onDragOver", "onDragLeave", "onDrop"}

\* The i-th entry of a call sequence is callback cb of handler t.
Is(cs, i, cb, t) == i \in 1..Len(cs) /\ cs[i].cb = cb /\ cs[i].on = t

\* How often callback cb of handler t was dispatched, and how often a function
\* was there and was invoked.
Dispatched(cs, cb, t) == Cardinality({i \in 1..Len(cs) : Is(cs, i, cb, t)})
Invoked(cs, cb, t) == Cardinality({i \in 1..Len(cs) : Is(cs, i, cb, t) /\ cs[i].invoked})

\* The drop record of handler d is entered.
EnteredIn(reg, d) == \E i \in 1..Len(reg) : reg[i].handler = d /\ reg[i].entered

\* The last step was a mousemove that left a drag active, i.e. a drag tick.
DragTick == event.type = "mousemove" /\ Active # {} /\ ~threw

\* The last step was a primary-button mouseup that found the drag of h active.
ReleaseOf(h) == event.type = "mouseup" /\ event.button = 0 /\ h \in event.active

\* The records whose cached rect contains the position of the last event.
Matched == {i \in 1..Len(registry) : hitTestRect(registry[i].rect, event.x, event.y)}

----------------------------------------------------------------------------
(* C1 - C3: the order and number of the drop callbacks of one tick *)

\* C1: within one dispatch (one mousemove or one mouseup), every drag-leave
\* callback is invoked before any drag-enter, drag-over or drop callback of
\* any record, whatever the registration order of the records.
C1_LeaveBeforeOthers ==
    \A i, j \in 1..Len(calls) :
        ( /\ calls[i].cb = "onDragLeave" /\ calls[i].invoked
          /\ calls[j].cb \in {"onDragEnter", "onDragOver", "onDrop"} /\ calls[j].invoked )
        => i < j

\* The pointer went in one move from inside A to inside B, with B registered
\* before A: A's leave callback ran, and B's enter callback after it.
C1_Witness ==
    /\ event.type = "mousemove"
    /\ Len(registry) = 2 /\ registry[1].handler = "B" /\ registry[2].handler = "A"
    /\ \E i, j \in 1..Len(calls) :
          /\ i < j
          /\ Is(calls, i, "onDragLeave", "A") /\ calls[i].invoked
          /\ Is(calls, j, "onDragEnter", "B") /\ calls[j].invoked

\* C2: a step of a gesture invokes a handler's onDragEnter only if the
\* pointer is inside its cached rect and its record was not entered before
\* the step (the step that starts a gesture invalidates the records first),
\* and then once; and while a gesture goes on, a registered record stops
\* being entered only in a step that dispatches its drag-leave.  So ticks that stay inside
\* fire no further enter, and two enters of one gesture have a leave between
\* them.
C2_EnterStep ==
    \A d \in DropIds :
        /\ Dispatched(calls', "onDragEnter", d) > 0 =>
              /\ Dispatched(calls', "onDragEnter", d) = 1
              /\ ~EnteredIn(registry, d) \/ Active = {}
              /\ \E i \in 1..Len(registry') :
                    /\ registry'[i].handler = d
                    /\ registry'[i].entered
                    /\ hitTestRect(registry'[i].rect, event'.x, event'.y)
        /\ ( /\ EnteredIn(registry, d) /\ ~EnteredIn(registry', d)
             /\ \E i \in 1..Len(registry') : registry'[i].handler = d
             /\ Active # {} /\ Active' = Active )
           => Dispatched(calls', "onDragLeave", d) = 1

C2_EnterOnlyWhenNewlyInside == [][C2_EnterStep]_vars

\* A drag tick that stayed inside A: A is entered, drag-over was dispatched,
\* drag-enter was not.
C2_Witness ==
    /\ DragTick
    /\ EnteredIn(registry, "A")
    /\ Invoked(calls, "onDragOver", "A") = 1
    /\ Dispatched(calls, "onDragEnter", "A") = 0

\* C3: on every drag tick each record whose cached rect contains the pointer
\* gets drag-over exactly once (its callback is invoked when one is assigned),
\* directly after its drag-enter when that fired on the same tick; a record
\* whose rect does not contain the pointer gets no drag-over.
C3_OverOncePerTick ==
    DragTick =>
        \A i \in 1..Len(registry) :
            LET d == registry[i].handler
                inside == hitTestRect(registry[i].rect, event.x, event.y)
            IN  /\ Dispatched(calls, "onDragOver", d) = IF inside THEN 1 ELSE 0
                /\ Invoked(calls, "onDragOver", d) =
                      IF inside /\ drop[d].onDragOver # "null" THEN 1 ELSE 0
                /\ \A j \in 1..Len(calls) :
                      Is(calls, j, "onDragEnter", d) => Is(calls, j + 1, "onDragOver", d)

\* A drag tick that entered A: enter first, then over, both invoked.
C3_Witness ==
    /\ DragTick
    /\ \E j \in 1..Len(calls) :
          /\ Is(calls, j, "onDragEnter", "A") /\ calls[j].invoked
          /\ Is(calls, j + 1, "onDragOver", "A") /\ calls[j + 1].invoked

----------------------------------------------------------------------------
(* C4 - C5: the drag threshold *)

\* C4: in a gesture begun by a primary-button mousedown on a handler whose
\* threshold is in force (start() never took effect on it), as long as no
\* mousemove since the press has reached 5 pixels in x or in y from the press
\* point: onDragStart was not invoked, the handler holds no DragData, no
\* ghost is attached, no cursor override is installed, and the moves
\* dispatched no callback at all.
C4_NoStartUnderThreshold ==
    \A h \in DOMAIN drag :
        ( /\ hist[h].origin = "mousedown"
          /\ ~drag[h].ignoreThreshold
          /\ hist[h].qualified = 0 )
        => /\ hist[h].starts = 0
           /\ ~drag[h].dragData.live
           /\ ghosts[h] = 0
           /\ cursor = "" /\ ~overrideClass
           /\ event.type = "mousemove" => calls = <<>>

\* A move away from the press point that stays under the threshold in both
\* axes, on a handler with an onDragStart callback.
C4_Witness ==
    /\ event.type = "mousemove"
    /\ hist["h1"].origin = "mousedown" /\ hist["h1"].qualified = 0
    /\ ~drag["h1"].ignoreThreshold
    /\ drag["h1"].onDragStart # "null"
    /\ <<event.x, event.y>> # <<drag["h1"].pressX, drag["h1"].pressY>>
    /\ calls = <<>>

\* C5: in a gesture begun by a primary-button mousedown, the first mousemove
\* that reaches 5 pixels in x or in y from the press point invokes
\* onDragStart, and onDragStart is invoked exactly once between the press and
\* the release, however many qualifying moves follow.
C5_StartOnFirstQualifyingMove ==
    \A h \in DOMAIN drag :
        (hist[h].origin = "mousedown" /\ drag[h].onDragStart # "null")
        => /\ ( /\ event.type = "mousemove"
                /\ hist[h].qualified = 1
                /\ Reaches5(drag[h].pressX, drag[h].pressY, event.x, event.y) )
              => Invoked(calls, "onDragStart", h) = 1
           /\ hist[h].starts <= 1
           /\ hist[h].qualified >= 1 => hist[h].starts = 1

\* What the code does keep: where the threshold is in force, C5 holds.
C5_WithThresholdInForce ==
    \A h \in DOMAIN drag :
        ( /\ hist[h].origin = "mousedown" /\ drag[h].onDragStart # "null"
          /\ ~drag[h].ignoreThreshold )
        => /\ ( /\ event.type = "mousemove"
                /\ hist[h].qualified = 1
                /\ Reaches5(drag[h].pressX, drag[h].pressY, event.x, event.y) )
              => Invoked(calls, "onDragStart", h) = 1
           /\ hist[h].starts <= 1
           /\ hist[h].qualified >= 1 => hist[h].starts = 1

----------------------------------------------------------------------------
(* C6 - C10: mouse buttons, release and drop *)

\* C6: a primary-button mouseup on an active drag runs the drop pass, then
\* onDragEnd exactly once and last, with the DragData still held; afterwards
\* the handler holds no DragData, its ghost is out of the document, the cursor
\* override is disposed (cursor '' and no marker class, no other override
\* having been created) and the document listeners are removed.
C6_ReleaseEndsDrag ==
    \A h \in DOMAIN drag :
        ReleaseOf(h) =>
            /\ Len(calls) >= 1
            /\ Is(calls, Len(calls), "onDragEnd", h)
            /\ calls[Len(calls)].live
            /\ calls[Len(calls)].invoked = (drag[h].onDragEnd # "null")
            /\ Dispatched(calls, "onDragEnd", h) = 1
            /\ \A i \in 1..(Len(calls) - 1) : calls[i].cb \in DropCallbacks
            /\ \A i \in Matched : Dispatched(calls, "onDrop", registry[i].handler) = 1
            /\ ~drag[h].dragData.live
            /\ ghosts[h] = 0
            /\ cursor = "" /\ ~overrideClass
            /\ ~InSeq(h, docListeners)

\* A release over a drop target: its drop callback, then onDragEnd.
C6_Witness ==
    /\ ReleaseOf("h1")
    /\ Len(calls) >= 2
    /\ calls[Len(calls)].cb = "onDragEnd" /\ calls[Len(calls)].invoked
    /\ calls[Len(calls) - 1].cb = "onDrop" /\ calls[Len(calls) - 1].invoked
    /\ overrideID > 1

\* C7: a mousedown with a button other than the primary one changes nothing:
\* the press position, the document listeners and everything else are as
\* before, so a later mousemove finds the handler as it was.
C7_SecondaryDownStep ==
    (event'.type = "mousedown" /\ event'.button # 0) =>
        /\ UNCHANGED progVars
        /\ UNCHANGED hist
        /\ calls' = <<>>

C7_SecondaryDownIgnored == [][C7_SecondaryDownStep]_vars

\* A secondary-button mousedown on an idle handler: no press position, no
\* document listeners.
C7_Witness ==
    /\ event.type = "mousedown" /\ event.button # 0
    /\ drag["h1"].pressX = -1 /\ drag["h1"].pressY = -1
    /\ docListeners = <<>>

\* C8: a mouseup with a button other than the primary one changes nothing
\* and dispatches nothing; a drag stops being active, and a handler stops
\* listening for document events, only on a primary-button mouseup or on
\* dispose.
C8_SecondaryUpStep ==
    /\ (event'.type = "mouseup" /\ event'.button # 0) =>
          /\ UNCHANGED progVars
          /\ UNCHANGED hist
          /\ calls' = <<>>
    /\ \A h \in DOMAIN drag :
          ( \/ h \in Active /\ h \notin Active'
            \/ InSeq(h, docListeners) /\ ~InSeq(h, docListeners') )
          => \/ event'.type = "mouseup" /\ event'.button = 0
             \/ event'.type = "dispose" /\ event'.target = h

C8_SecondaryUpIgnored == [][C8_SecondaryUpStep]_vars

\* A secondary-button mouseup during an active drag: the drag goes on.
C8_Witness ==
    /\ event.type = "mouseup" /\ event.button # 0
    /\ "h1" \in Active
    /\ ghosts["h1"] = 1
    /\ InSeq("h1", docListeners)

\* C9: on a primary-button release of an active drag, each record whose
\* cached rect contains the release point gets drop exactly once (its
\* callback is invoked when one is assigned); a record that was not entered
\* is marked entered and gets drag-enter directly before its drop, a record
\* that was entered gets no drag-enter.
C9_DropStep ==
    \A h \in DOMAIN drag :
        (event'.type = "mouseup" /\ event'.button = 0 /\ h \in Active) =>
            /\ Len(registry') = Len(registry)
            /\ \A i \in 1..Len(registry) :
                  LET d == registry[i].handler
                  IN  hitTestRect(registry'[i].rect, event'.x, event'.y) =>
                        /\ registry'[i].handler = d
                        /\ registry'[i].entered
                        /\ Dispatched(calls', "onDrop", d) = 1
                        /\ Invoked(calls', "onDrop", d) =
                              IF drop[d].onDrop # "null" THEN 1 ELSE 0
                        /\ IF registry[i].entered
                           THEN Dispatched(calls', "onDragEnter", d) = 0
                           ELSE /\ Dispatched(calls', "onDragEnter", d) = 1
                                /\ \E j \in 1..Len(calls') :
                                      /\ Is(calls', j, "onDragEnter", d)
                                      /\ Is(calls', j + 1, "onDrop", d)

C9_DropEntersFirst == [][C9_DropStep]_vars

\* A release over A coming from outside A: enter, then drop, both invoked.
C9_Witness ==
    /\ ReleaseOf("h1")
    /\ \E j \in 1..Len(calls) :
          /\ Is(calls, j, "onDragEnter", "A") /\ calls[j].invoked
          /\ Is(calls, j + 1, "onDrop", "A") /\ calls[j + 1].invoked

\* C10: when the target matched at release (the last one in registry order,
\* should several match) has no onDrop callback, dropAction is 'none' when
\* onDragEnd runs, whatever the enter and over callbacks had set.
C10_NoDropCallbackGivesNone ==
    \A h \in DOMAIN drag :
        ( /\ ReleaseOf(h)
          /\ Matched # {}
          /\ \A i \in Matched :
                (\A k \in Matched : k <= i) => drop[registry[i].handler].onDrop = "null" )
        => \A j \in 1..Len(calls) : calls[j].cb = "onDragEnd" => calls[j].action = "none"

\* A release over B, which has no onDrop callback, with dropAction at 'copy'
\* (set by B's onDragEnter) when the drop is dispatched: onDragEnd finds 'none'.
C10_Witness ==
    /\ ReleaseOf("h1")
    /\ \E j \in 1..Len(calls) :
          /\ Is(calls, j, "onDrop", "B") /\ ~calls[j].invoked
          /\ calls[j].action = "copy"
          /\ Is(calls, j + 1, "onDragEnd", "h1") /\ calls[j + 1].invoked
          /\ calls[j + 1].action = "none"

----------------------------------------------------------------------------
(* C11 - C12: the records of a dispatch *)

\* C11: on a primary-button release of an active drag, each record that was
\* entered and whose cached rect does not contain the release point is no
\* longer entered afterwards, gets drag-leave exactly once (its callback is
\* invoked when one is assigned), finds dropAction at 'none' after that leave
\* whatever the callback had assigned, and gets no drop.
C11_DropLeaveStep ==
    \A h \in DOMAIN drag :
        (event'.type = "mouseup" /\ event'.button = 0 /\ h \in Active) =>
            /\ Len(registry') = Len(registry)
            /\ \A i \in 1..Len(registry) :
                  LET d == registry[i].handler
                  IN  ( /\ registry[i].entered
                        /\ ~hitTestRect(registry'[i].rect, event'.x, event'.y) ) =>
                        /\ registry'[i].handler = d
                        /\ ~registry'[i].entered
                        /\ Dispatched(calls', "onDragLeave", d) = 1
                        /\ Invoked(calls', "onDragLeave", d) =
                              IF drop[d].onDragLeave # "null" THEN 1 ELSE 0
                        /\ \A j \in 1..Len(calls') :
                              Is(calls', j, "onDragLeave", d) =>
                                  j < Len(calls') /\ calls'[j + 1].action = "none"
                        /\ Dispatched(calls', "onDrop", d) = 0

C11_DropLeavesUnmatched == [][C11_DropLeaveStep]_vars

\* A release outside A while A was entered: A's leave callback found the
\* dropAction A's drag-over had set and assigned another, and the callback
\* after it found 'none'; A got no drop and is no longer entered.
C11_Witness ==
    /\ ReleaseOf("h1")
    /\ ~EnteredIn(registry, "A")
    /\ Dispatched(calls, "onDrop", "A") = 0
    /\ \E j \in 1..Len(calls) :
          /\ Is(calls, j, "onDragLeave", "A") /\ calls[j].invoked
          /\ calls[j].action = "move"
          /\ j < Len(calls) /\ calls[j + 1].action = "none"

\* C12: on every dispatch (a drag tick or a primary-button release of an
\* active drag) every record whose cached rect contains the pointer is
\* entered afterwards, gets drag-enter once if it was not entered in this
\* gesture before and not otherwise, and gets the drag-over (tick) or the drop
\* (release) once; no record is left out because another one matched.
C12_DispatchStep ==
    LET tick    == event'.type = "mousemove" /\ Active' # {}
        release == event'.type = "mouseup" /\ event'.button = 0 /\ Active # {}
    IN  (tick \/ release) =>
            /\ Len(registry') = Len(registry)
            /\ \A i \in 1..Len(registry) :
                  LET d == registry[i].handler
                      before == registry[i].entered /\ Active # {}
                  IN  hitTestRect(registry'[i].rect, event'.x, event'.y) =>
                        /\ registry'[i].handler = d
                        /\ registry'[i].entered
                        /\ Dispatched(calls', "onDragEnter", d) = IF before THEN 0 ELSE 1
                        /\ Dispatched(calls', "onDragOver", d) = IF tick THEN 1 ELSE 0
                        /\ Dispatched(calls', "onDrop", d) = IF release THEN 1 ELSE 0

C12_AllMatchingRecords == [][C12_DispatchStep]_vars

\* One drag tick inside the overlap of A and B: both got drag-enter and
\* drag-over on that tick and both are entered.
C12_Witness ==
    /\ DragTick
    /\ Cardinality(Matched) = 2
    /\ \A d \in DropIds :
          /\ EnteredIn(registry, d)
          /\ Dispatched(calls, "onDragEnter", d) = 1
          /\ Dispatched(calls, "onDragOver", d) = 1

----------------------------------------------------------------------------
(* C13: the cursor override *)

\* C13: after any sequence of overrideCursor calls and disposals, the document
\* cursor is the cursor of the most recently created override while that one
\* is undisposed and '' otherwise, and the marker class is present exactly
\* while the most recently created override is undisposed.  The cursor and the
\* class are thus a function of the newest override alone: disposing an older
\* one changes neither.
C13_LatestOverrideWins ==
    IF handles = <<>> THEN cursor = "" /\ ~overrideClass
    ELSE LET last == handles[Len(handles)]
         IN  /\ last.id = overrideID
             /\ cursor = IF last.disposed THEN "" ELSE last.cursor
             /\ overrideClass = ~last.disposed

\* Three overrides with different cursors, the two older ones disposed: the
\* third cursor is in force.
C13_Witness ==
    /\ Len(handles) = 3
    /\ handles[1].disposed /\ handles[2].disposed /\ ~handles[3].disposed
    /\ handles[3].cursor = "cell" /\ handles[2].cursor = "default" /\ handles[1].cursor = "wait"
    /\ event.type = "disposeOverride"
    /\ cursor = "cell" /\ overrideClass

----------------------------------------------------------------------------
(* C14 - C17: DragData *)

\* C14: assigning dropAction a value that is none of copy, link, move and
\* none changes nothing: the stored dropAction, the override the DragData
\* holds, the override id counter and the document cursor are as before.
C14_InvalidStep ==
    (event'.type = "dropAction" /\ event'.value \notin DropActions) =>
        /\ UNCHANGED progVars
        /\ ~threw'

C14_InvalidAssignmentIgnored == [][C14_InvalidStep]_vars

\* 'foo' was assigned while dropAction was 'move': it still is 'move', with
\* the move cursor.
C14_Witness ==
    /\ event.type = "dropAction" /\ event.value = "foo"
    /\ drag["h1"].dragData.live
    /\ drag["h1"].dragData.action = "move"
    /\ cursor = "move"

\* C15: assigning dropAction the value it already has changes nothing: the
\* override id counter does not advance, and the override the DragData holds
\* and the document cursor are as before.
C15_SameValueStep ==
    \A h \in DOMAIN drag :
        ( /\ event'.type = "dropAction" /\ event'.target = h
          /\ event'.value = drag[h].dragData.action ) =>
            UNCHANGED progVars

C15_SameValueIsNoOp == [][C15_SameValueStep]_vars

\* 'copy' was assigned while dropAction was 'copy', some overrides after the
\* one of the constructor.
C15_Witness ==
    /\ event.type = "dropAction" /\ event.value = "copy"
    /\ drag["h1"].dragData.live
    /\ drag["h1"].dragData.action = "copy"
    /\ drag["h1"].dragData.override = overrideID
    /\ overrideID >= 2
    /\ cursor = "copy"

\* The cursor that stands for a drop action.
CursorOf(action) ==
    CASE action = "none" -> "no-drop"
      [] action = "copy" -> "copy"
      [] action = "link" -> "alias"
      [] action = "move" -> "move"

\* C16: while a DragData is held (no other code overriding the cursor), the
\* document cursor is the one that stands for its dropAction, the marker class
\* is present and the override it holds is the active one: after every event
\* and every assignment by the application, and whenever a callback is
\* invoked; the first callback of a drag finds dropAction 'none' and the
\* cursor 'no-drop'.
C16_CursorFollowsDropAction ==
    /\ \A h \in DOMAIN drag :
          drag[h].dragData.live =>
              /\ drag[h].dragData.action \in DropActions
              /\ cursor = CursorOf(drag[h].dragData.action)
              /\ overrideClass
              /\ drag[h].dragData.override = overrideID
    /\ \A j \in 1..Len(calls) :
          calls[j].live => /\ calls[j].action \in DropActions
                           /\ calls[j].cursor = CursorOf(calls[j].action)
    /\ \A j \in 1..Len(calls) :
          calls[j].cb = "onDragStart" => calls[j].action = "none" /\ calls[j].cursor = "no-drop"

\* The application assigned 'link' to a DragData whose dropAction had been
\* changed before: the cursor is 'alias'.
C16_Witness ==
    /\ event.type = "dropAction" /\ event.value = "link"
    /\ drag["h1"].dragData.live
    /\ drag["h1"].dragData.action = "link"
    /\ cursor = "alias"
    /\ overrideID >= 3

\* The MIME types that types() lists for a DragData.
TypeSet(dd) == {types(dd.data)[i] : i \in 1..Len(types(dd.data))}

\* C17: the payload of a DragData is a map from MIME type to value.  A new
\* DragData has no types; setData(m, v) makes getData(m) return v and adds m
\* to types(); clearData(m) makes getData(m) return undefined and takes m out
\* of types(); neither changes what getData returns for another type, no
\* other step changes the payload of a DragData, and types() never lists a
\* type twice.
C17_PayloadStep ==
    \A h \in DOMAIN drag :
        LET old == drag[h].dragData
            new == drag'[h].dragData
            call == event'.target = h /\ old.live
        IN  /\ Cardinality(TypeSet(new)) = Len(types(new.data))
            /\ (new.live /\ ~old.live) => TypeSet(new) = {}
            /\ (call /\ event'.type = "setData") =>
                  /\ getData(new.data, event'.mime) = event'.value
                  /\ TypeSet(new) = TypeSet(old) \cup {event'.mime}
                  /\ \A m \in Mimes \ {event'.mime} :
                        getData(new.data, m) = getData(old.data, m)
            /\ (call /\ event'.type = "clearData") =>
                  /\ getData(new.data, event'.mime) = "undefined"
                  /\ TypeSet(new) = TypeSet(old) \ {event'.mime}
                  /\ \A m \in Mimes \ {event'.mime} :
                        getData(new.data, m) = getData(old.data, m)
            /\ (old.live /\ new.live /\ event'.type \notin {"setData", "clearData"}) =>
                  new.data = old.data
            /\ \A m \in Mimes \ TypeSet(new) : getData(new.data, m) = "undefined"

C17_PayloadIsMap == [][C17_PayloadStep]_vars

\* text/plain was cleared while text/html was set: only text/html is listed,
\* with its value.
C17_Witness ==
    /\ event.type = "clearData" /\ event.mime = "text/plain"
    /\ drag["h1"].dragData.live
    /\ types(drag["h1"].dragData.data) = <<"text/html">>
    /\ getData(drag["h1"].dragData.data, "text/html") = "v2"
    /\ getData(drag["h1"].dragData.data, "text/plain") = "undefined"

----------------------------------------------------------------------------
(* C18 - C20: start() and dispose() *)

\* C18: when start(x, y) was called on a handler that holds no DragData (and
\* is not disposed), the document mousemove that comes next starts the drag,
\* wherever it is: the handler holds a DragData and has its ghost in the
\* document, and the move dispatched onDragStart and onDrag once each (each
\* callback invoked when one is assigned), onDragStart first and onDrag last.
C18_StartStep ==
    \A h \in DOMAIN drag :
        ( /\ event.type = "start" /\ event.target = h
          /\ ~drag[h].dragData.live /\ ~drag[h].disposed
          /\ event'.type = "mousemove" ) =>
            /\ ~threw'
            /\ drag'[h].dragData.live
            /\ ghosts'[h] = 1
            /\ drag'[h].dragData.ghostX = event'.x /\ drag'[h].dragData.ghostY = event'.y
            /\ Dispatched(calls', "onDragStart", h) = 1
            /\ Invoked(calls', "onDragStart", h) = IF drag[h].onDragStart # "null" THEN 1 ELSE 0
            /\ Dispatched(calls', "onDrag", h) = 1
            /\ Invoked(calls', "onDrag", h) = IF drag[h].onDrag # "null" THEN 1 ELSE 0
            /\ Is(calls', 1, "onDragStart", h)
            /\ Is(calls', Len(calls'), "onDrag", h)

C18_StartIgnoresThreshold == [][C18_StartStep]_vars

\* A drag started by start() and a mousemove at the press position itself:
\* both callbacks were invoked.
C18_Witness ==
    /\ event.type = "mousemove"
    /\ hist["h1"].origin = "start" /\ hist["h1"].qualified = 0 /\ hist["h1"].starts = 1
    /\ event.x = drag["h1"].pressX /\ event.y = drag["h1"].pressY
    /\ drag["h1"].dragData.live /\ ghosts["h1"] = 1
    /\ Invoked(calls, "onDragStart", "h1") = 1
    /\ Invoked(calls, "onDrag", "h1") = 1

\* C19: start() on a handler whose drag is active changes nothing: the press
\* position and the threshold flag, the DragData with its dropAction and
\* payload, the ghost, the cursor override and the document listeners are as
\* before, and no callback is dispatched; so the next move finds the gesture
\* as the last one left it.
C19_StartWhileActiveStep ==
    \A h \in DOMAIN drag :
        (event'.type = "start" /\ event'.target = h /\ h \in Active) =>
            /\ UNCHANGED progVars
            /\ UNCHANGED hist
            /\ calls' = <<>>
            /\ ~threw'

C19_StartWhileActiveIsNoOp == [][C19_StartWhileActiveStep]_vars

\* start() was called, with a position other than the press position, during
\* a drag that a mousedown had begun: the press position and the threshold
\* flag are those of the mousedown.
C19_Witness ==
    /\ event.type = "start" /\ event.target = "h1"
    /\ "h1" \in event.active /\ "h1" \in Active
    /\ hist["h1"].origin = "mousedown"
    /\ ~drag["h1"].ignoreThreshold
    /\ <<event.x, event.y>> # <<drag["h1"].pressX, drag["h1"].pressY>>
    /\ ghosts["h1"] = 1

\* C20: dispose() on a handler whose drag is active takes its ghost out of
\* the document, disposes the cursor override of its DragData (cursor '' and
\* no marker class, no other override having been created), discards the
\* DragData and removes the document listeners, without dispatching a
\* callback; and a disposed handler never holds a DragData or has a ghost in
\* the document, and no event invokes a callback of it.
C20_DisposeStep ==
    \A h \in DOMAIN drag :
        /\ (event'.type = "dispose" /\ event'.target = h /\ h \in Active) =>
              /\ ~threw'
              /\ drag'[h].disposed
              /\ ~drag'[h].dragData.live
              /\ ghosts'[h] = 0
              /\ cursor' = "" /\ ~overrideClass'
              /\ ~InSeq(h, docListeners')
              /\ calls' = <<>>
        /\ drag'[h].disposed =>
              /\ ~drag'[h].dragData.live
              /\ ghosts'[h] = 0
              /\ \A j \in 1..Len(calls') : calls'[j].on = h => ~calls'[j].invoked

C20_DisposeEndsDrag == [][C20_DisposeStep]_vars

\* A handler with callbacks was disposed during a drag over A, with the
\* cursor overridden several times: no DragData, no ghost, no cursor.
C20_Witness ==
    /\ event.type = "dispose" /\ event.target = "h1"
    /\ "h1" \in event.active
    /\ EnteredIn(registry, "A")
    /\ overrideID >= 2
    /\ drag["h1"].disposed
    /\ ~drag["h1"].dragData.live /\ ghosts["h1"] = 0
    /\ cursor = "" /\ ~overrideClass
    /\ docListeners = <<>>

----------------------------------------------------------------------------
(* C21 - C22: disposed handlers *)

\* C21: dispose() on a DragHandler or a DropHandler that is already disposed
\* raises no exception and changes no state.
C21_SecondDisposeStep ==
    /\ \A h \in DOMAIN drag :
          (event'.type = "dispose" /\ event'.target = h /\ drag[h].disposed) =>
              ~threw' /\ UNCHANGED progVars
    /\ \A d \in DOMAIN drop :
          (event'.type = "dropDispose" /\ event'.target = d /\ drop[d].disposed) =>
              ~threw' /\ UNCHANGED progVars

C21_SecondDisposeIsSafe == [][C21_SecondDisposeStep]_vars

\* What the code does keep: the DropHandler half of C21.
C21_SecondDropDisposeStep ==
    \A d \in DOMAIN drop :
        (event'.type = "dropDispose" /\ event'.target = d /\ drop[d].disposed) =>
            ~threw' /\ UNCHANGED progVars

C21_SecondDropDisposeIsSafe == [][C21_SecondDropDisposeStep]_vars

\* C22: on a disposed DragHandler, start() and every mouse event delivered
\* to it do nothing: no exception, no change of state (no document listener
\* installed, no DragData, no ghost) and no callback.
C22_DisposedStep ==
    \A h \in DOMAIN drag :
        ( /\ drag[h].disposed
          /\ \/ event'.type \in {"start", "mousedown"} /\ event'.target = h
             \/ event'.type \in {"mousemove", "mouseup"} /\ InSeq(h, docListeners) ) =>
            /\ ~threw'
            /\ UNCHANGED progVars
            /\ calls' = <<>>

C22_DisposedHandlerIsInert == [][C22_DisposedStep]_vars

\* What the code does keep: a disposed handler creates no DragData and no
\* ghost, and no callback of it is invoked.
C22_DisposedHandlerStartsNoDrag ==
    \A h \in DOMAIN drag :
        drag[h].disposed =>
            /\ ~drag[h].dragData.live
            /\ ghosts[h] = 0
            /\ \A j \in 1..Len(calls) : ~calls[j].invoked

----------------------------------------------------------------------------
(* C23: the entered flags between gestures *)

C23_ResetStep ==
    /\ overrideID' = 0 => \A i \in 1..Len(registry') : ~registry'[i].entered
    /\ (Active = {} /\ Active' # {}) =>
          \A i \in 1..Len(registry') :
              LET d == registry'[i].handler
                  inside == hitTestRect(drop[d].rect, event'.x, event'.y)
              IN  /\ registry'[i].entered = inside
                  /\ Dispatched(calls', "onDragEnter", d) = IF inside THEN 1 ELSE 0
                  /\ Dispatched(calls', "onDragLeave", d) = 0
    /\ (event'.type = "mouseup" /\ event'.button = 0 /\ Active # {}) =>
          \A i \in 1..Len(registry') :
              registry'[i].entered = hitTestRect(registry'[i].rect, event'.x, event'.y)
    /\ (Active = {} /\ Active' = {} /\ ~threw') => registry' = registry

----------------------------------------------------------------------------
(* C24 - C25: the DragData of a handler *)

\* C24: at any instant at most one DragHandler holds a DragData, whatever
\* the interleaving of mousedown, start(), mousemove and mouseup over two
\* handlers.
C24_AtMostOneActive == Cardinality(Active) <= 1

\* C25: a handler has a ghost in the document exactly when it holds a
\* DragData, and then exactly one; and a step that finds the handler holding
\* a DragData creates no other: it dispatches no onDragStart, attaches no
\* ghost, and the DragData held afterwards, if any, is the one held before
\* (same payload, dropAction changed only by the callbacks).
C25_OneDragDataStep ==
    \A h \in DOMAIN drag :
        /\ ghosts'[h] = IF drag'[h].dragData.live THEN 1 ELSE 0
        /\ drag[h].dragData.live =>
              /\ Dispatched(calls', "onDragStart", h) = 0
              /\ ghosts'[h] <= ghosts[h]
              /\ drag'[h].dragData.live => drag'[h].dragData.data = drag[h].dragData.data

C25_OneDragDataOneGhost == [][C25_OneDragDataStep]_vars

\* A move past the threshold during a drag: still one ghost, no second
\* onDragStart.
C25_Witness ==
    /\ event.type = "mousemove" /\ "h1" \in event.active
    /\ Reaches5(drag["h1"].pressX, drag["h1"].pressY, event.x, event.y)
    /\ drag["h1"].dragData.live
    /\ ghosts["h1"] = 1
    /\ Dispatched(calls, "onDragStart", "h1") = 0
    /\ Invoked(calls, "onDrag", "h1") = 1

----------------------------------------------------------------------------
(* C26: disposed drop handlers *)

\* C26: once a DropHandler is disposed the registry holds no record of it,
\* and no dispatch, of a drag tick or of a release, reaches it: none of its
\* four callbacks is invoked or even looked up.
C26_DisposedDropHandlerIsGone ==
    \A d \in DOMAIN drop :
        drop[d].disposed =>
            /\ \A i \in 1..Len(registry) : registry[i].handler # d
            /\ \A j \in 1..Len(calls) : calls[j].on # d

\* A drag tick inside the node of A after A was disposed in the course of
\* this drag, entered (dropAction is still the 'move' that A's drag-over
\* assigned): the tick dispatched callbacks, none of them to A.
C26_Witness ==
    /\ DragTick
    /\ drop["A"].disposed
    /\ hitTestRect(drop["A"].rect, event.x, event.y)
    /\ drag["h1"].dragData.action = "move"
    /\ calls # <<>>
    /\ \A j \in 1..Len(calls) : calls[j].on # "A"

----------------------------------------------------------------------------
(* C27: hitTest *)

\* C27: hitTest is true exactly for the points with left <= x < right and
\* top <= y < bottom; so of two rects that abut, the right edge of one being
\* the left edge of the other or the bottom edge of one the top edge of the
\* other, no point is inside both.
C27_HalfOpenHitTest ==
    (probe.fn = "hitTest" /\ probe.done) =>
        LET r == probe.rect
            r2 == probe.rect2
        IN  /\ probe.result <=> ( /\ r.left <= probe.x /\ probe.x < r.right
                                  /\ r.top <= probe.y /\ probe.y < r.bottom )
            /\ probe.result2 <=> ( /\ r2.left <= probe.x /\ probe.x < r2.right
                                   /\ r2.top <= probe.y /\ probe.y < r2.bottom )
            /\ (r.right = r2.left \/ r.bottom = r2.top) => ~(probe.result /\ probe.result2)

\* A point on the common edge of two rects that abut left to right: it is
\* outside the left rect and inside the right one.
C27_Witness ==
    /\ probe.fn = "hitTest" /\ probe.done
    /\ probe.rect.right = probe.rect2.left
    /\ probe.x = probe.rect.right
    /\ ~probe.result /\ probe.result2

----------------------------------------------------------------------------
(* C28: the autostart variant *)

\* C28: in the autostart variant, with autostart false a mousemove after a
\* press does not start the drag, wherever it is: no ghost, no onDragStart,
\* no drop dispatch.  startDrag(event) then starts it at once, whatever the
\* position of the event: the DragData is started, the ghost is attached and
\* onDragStart is invoked once (when one is assigned), and nothing else.
C28_VariantStep ==
    LET v == variant
        w == variant'
        pressed == v.dragData.live /\ ~v.dragData.started
    IN  /\ (w.last.type = "mousemove" /\ ~v.autostart /\ pressed) =>
              /\ ~w.threw
              /\ ~w.dragData.started
              /\ w.ghosts = v.ghosts
              /\ w.calls = <<>>
              /\ w.droppable = v.droppable
        /\ (w.last.type = "startDrag" /\ ~v.autostart /\ pressed) =>
              /\ ~w.threw
              /\ w.dragData.started /\ w.dragData.ghost
              /\ w.ghosts = v.ghosts + 1
              /\ w.calls = IF v.onDragStart THEN <<"onDragStart">> ELSE <<>>

C28_ManualStart == [][C28_VariantStep]_vars

\* With autostart false: a press at <<0,0>>, then startDrag with an event
\* nearer than 5 pixels: the drag is started, one ghost, onDragStart invoked.
C28_Witness ==
    /\ variant.last.type = "startDrag"
    /\ ~variant.autostart
    /\ variant.dragData.started
    /\ variant.last.x = 3 /\ variant.last.y = 3
    /\ variant.dragData.startX = 0 /\ variant.dragData.startY = 0
    /\ variant.ghosts = 1
    /\ variant.calls = <<"onDragStart">>

----------------------------------------------------------------------------
(* C29: sizeLimits *)

SizeLimitNames == {"minWidth", "minHeight", "maxWidth", "maxHeight"}
SizeLimitDefault(f) == IF f \in {"minWidth", "minHeight"} THEN Num(0) ELSE Infinity

\* C29: for each of the four limits sizeLimits returns the integer parsed
\* from the computed style whenever the value parses to an integer, 0
\* included, and the default (0 for a minimum, Infinity for a maximum) only
\* when the value does not parse.
C29_ParsedOrDefault ==
    (probe.fn = "sizeLimits" /\ probe.done) =>
        \A f \in SizeLimitNames :
            LET parsed == parseInt(probe.cstyle[f])
            IN  probe.result[f] = IF parsed.kind = "int" THEN parsed
                                  ELSE SizeLimitDefault(f)

\* What does hold: the claim for every value that does not parse to 0, and
\* for the two minimums.
C29_ParsedOrDefaultButZero ==
    (probe.fn = "sizeLimits" /\ probe.done) =>
        \A f \in SizeLimitNames :
            LET parsed == parseInt(probe.cstyle[f])
            IN  (parsed # Num(0) \/ f \in {"minWidth", "minHeight"}) =>
                    probe.result[f] = IF parsed.kind = "int" THEN parsed
                                      ELSE SizeLimitDefault(f)

----------------------------------------------------------------------------
(* C30: the cached rect of a drop record *)

\* The step began a drag: the cached drop data was invalidated in it.
C30_BeganDrag == \E h \in DOMAIN drag : ~drag[h].dragData.live /\ drag'[h].dragData.live

\* The step dispatched to the drop records: a drag tick or a drop.
C30_Dispatch ==
    \/ event'.type = "mousemove" /\ \E h \in DOMAIN drag : drag'[h].dragData.live
    \/ event'.type = "mouseup" /\ event'.button = 0 /\ event'.active # {}

\* C30: within one gesture the rect of a drop record is read from its node
\* once, by the first dispatch that touches the record, and kept from then
\* on: a cached rect changes only when a drag begins, also when the node has
\* moved since; and every dispatch decides by the cached rect, not by where
\* the node is now, which records are entered and get drag-over or drop.
C30_CachedRectStep ==
    \A i \in 1..Len(registry) :
        LET rec == registry[i]
            new == registry'[i]
            d == rec.handler
            hit == hitTestRect(new.rect, event'.x, event'.y)
        IN  /\ new.handler = d
            /\ (rec.rect.set /\ ~C30_BeganDrag) => new.rect = rec.rect
            /\ (new.rect.set /\ (~rec.rect.set \/ C30_BeganDrag)) => new.rect = drop[d].rect
            /\ C30_Dispatch =>
                  /\ new.rect.set
                  /\ new.entered <=> hit
                  /\ event'.type = "mousemove" => (Dispatched(calls', "onDragOver", d) = 1 <=> hit)
                  /\ event'.type = "mouseup" => (Dispatched(calls', "onDrop", d) = 1 <=> hit)

C30_RectCachedForGesture == [][C30_CachedRectStep]_vars

\* A drag tick at a position that is inside the cached rect of A and outside
\* the rect its node has now: A was dispatched drag-over all the same.
C30_Witness ==
    /\ DragTick
    /\ \E i \in 1..Len(registry) :
          /\ registry[i].handler = "A"
          /\ registry[i].rect.set
          /\ registry[i].rect # drop["A"].rect
          /\ hitTestRect(registry[i].rect, event.x, event.y)
          /\ ~hitTestRect(drop["A"].rect, event.x, event.y)
          /\ registry[i].entered
    /\ Dispatched(calls, "onDragOver", "A") = 1

----------------------------------------------------------------------------
(* C31: a drag starts from invalidated drop records *)

\* The last step was a mousemove that began a drag.
StartingMove == event.type = "mousemove" /\ \E j \in 1..Len(calls) : calls[j].cb = "onDragStart"

\* C31: when a drag begins, the drag start callback finds every record with
\* no cached rect and not entered; the first dispatch, in the same move,
\* therefore reads every rect from its node as it is then, and enters exactly
\* the records whose node contains the pointer, each with a drag-enter and
\* none with a drag-leave, whatever an earlier gesture left behind.
C31_StartsInvalidated ==
    /\ \A j \in 1..Len(calls) :
          calls[j].cb = "onDragStart" => calls[j].entered = {} /\ calls[j].cached = {}
    /\ StartingMove =>
          \A i \in 1..Len(registry) :
              LET d == registry[i].handler
                  hit == hitTestRect(drop[d].rect, event.x, event.y)
              IN  /\ registry[i].rect = drop[d].rect
                  /\ registry[i].entered <=> hit
                  /\ Dispatched(calls, "onDragEnter", d) = (IF hit THEN 1 ELSE 0)
                  /\ Dispatched(calls, "onDragLeave", d) = 0

\* A drag that is not the first begins with a move that enters A, whose node
\* has moved from where it was at construction.  (The DragData of a first
\* drag installs override 1, and the callbacks of A and B that its starting
\* move invokes at most three more: a higher overrideID tells of an earlier
\* drag.)
C31_Witness ==
    /\ StartingMove
    /\ overrideID > 4
    /\ drop["A"].rect # RectA
    /\ Dispatched(calls, "onDragEnter", "A") = 1
    /\ calls[1].cb = "onDragStart" /\ calls[1].entered = {} /\ calls[1].cached = {}

----------------------------------------------------------------------------
(* C32: the order of one drag tick *)

\* C32: after every mousemove that leaves a drag active, the move that began
\* it included: the ghost is at the client position of the event, and was
\* there already when each drop callback of the tick and onDrag ran; onDrag
\* was dispatched once, after every drop callback (it is invoked when one is
\* assigned); on the starting move onDragStart came first, once, before the
\* ghost was positioned.
C32_TickOrder ==
    \A h \in DOMAIN drag :
        (DragTick /\ drag[h].dragData.live) =>
            LET n == Len(calls)
                first == IF StartingMove THEN 2 ELSE 1
            IN  /\ drag[h].dragData.ghostX = event.x
                /\ drag[h].dragData.ghostY = event.y
                /\ n >= first
                /\ Is(calls, n, "onDrag", h)
                /\ calls[n].invoked <=> drag[h].onDrag # "null"
                /\ \A j \in first..(n - 1) : calls[j].cb \in DropCallbacks
                /\ \A j \in first..n : calls[j].ghost = <<event.x, event.y>>
                /\ StartingMove =>
                      /\ Is(calls, 1, "onDragStart", h)
                      /\ calls[1].invoked <=> drag[h].onDragStart # "null"
                      /\ calls[1].ghost # <<event.x, event.y>>

\* A starting move into A: onDragStart, then the drag-enter and drag-over of
\* A, then onDrag, all invoked.
C32_Witness ==
    /\ DragTick /\ StartingMove
    /\ Len(calls) >= 4
    /\ calls[1].cb = "onDragStart" /\ calls[1].invoked
    /\ Is(calls, 2, "onDragEnter", "A") /\ calls[2].invoked
    /\ calls[Len(calls)].cb = "onDrag" /\ calls[Len(calls)].invoked
    /\ calls[Len(calls)].ghost = <<5, 0>>

----------------------------------------------------------------------------
(* C33: dropAction after a drag-leave *)

\* C33: whenever a record is left, dropAction is 'none' when its drag-leave
\* handling returns, whatever the onDragLeave callback assigned: the next
\* callback of the tick (a further drag-leave, an enter, over or drop of
\* another record, or the drag handler's onDrag or onDragEnd) finds 'none'.
C33_NoneAfterLeave ==
    \A j \in 1..Len(calls) :
        calls[j].cb = "onDragLeave" =>
            /\ j < Len(calls)
            /\ calls[j + 1].action = "none"

\* A is left for B in one move: the onDragLeave of A is invoked (it assigns
\* 'link') and the onDragEnter of B, next, finds 'none'.
C33_Witness ==
    \E j \in 1..Len(calls) :
        /\ Is(calls, j, "onDragLeave", "A") /\ calls[j].invoked
        /\ drop["A"].onDragLeave = "link"
        /\ calls[j].action # "none"
        /\ Is(calls, j + 1, "onDragEnter", "B")
        /\ calls[j + 1].action = "none"

----------------------------------------------------------------------------
(* C34: a missing onDragOver *)

\* C34: on a drag tick a matched record without an onDragOver callback
\* leaves dropAction as it was: whatever runs next finds the value the
\* missing callback would have found.  Only the drop pass forces 'none' for
\* a missing callback (onDrop).
C34_MissingOverKeepsAction ==
    \A j \in 1..Len(calls) :
        /\ (calls[j].cb = "onDragOver" /\ ~calls[j].invoked) =>
              /\ event.type = "mousemove"
              /\ j < Len(calls)
              /\ calls[j + 1].action = calls[j].action
              /\ calls[j + 1].cursor = calls[j].cursor
        /\ (calls[j].cb = "onDrop" /\ ~calls[j].invoked) =>
              /\ event.type = "mouseup"
              /\ j < Len(calls)
              /\ calls[j + 1].action = "none"

\* B, without onDragOver, is matched on a drag tick while dropAction is
\* 'copy': onDrag, next, finds 'copy'.
C34_Witness ==
    /\ DragTick
    /\ \E j \in 1..Len(calls) :
          /\ Is(calls, j, "onDragOver", "B") /\ ~calls[j].invoked
          /\ calls[j].action = "copy"
          /\ calls[j + 1].cb = "onDrag"
          /\ calls[j + 1].action = "copy"

----------------------------------------------------------------------------
(* C35: how long the threshold bypass of start() lasts *)

\* C35: the threshold bypass of start() ends with the gesture that start()
\* began: in a later gesture begun by a primary-button mousedown on the same
\* handler (_ignoreThreshold tells that start() took effect on it before), a
\* move that reaches 5 pixels in neither axis starts no drag: no onDragStart,
\* no DragData, no ghost.
C35_BypassEndsWithGesture ==
    \A h \in DOMAIN drag :
        ( /\ drag[h].ignoreThreshold
          /\ hist[h].origin = "mousedown"
          /\ hist[h].qualified = 0
          /\ event.type = "mousemove" )
        => /\ Dispatched(calls, "onDragStart", h) = 0
           /\ ~drag[h].dragData.live
           /\ ghosts[h] = 0

\* What the code does: nothing ever clears _ignoreThreshold once start() has
\* set it.
C35_BypassStep == \A h \in DOMAIN drag : drag[h].ignoreThreshold => drag'[h].ignoreThreshold

C35_BypassIsPermanent == [][C35_BypassStep]_vars

----------------------------------------------------------------------------
(* C36: the terminal callbacks of a release *)

\* C36: on a primary-button release of an active drag, every record that was
\* entered when the drop pass began or is entered by it gets exactly one
\* terminal callback in the pass (its function is invoked when one is
\* assigned): drag-leave when its cached rect does not contain the release
\* point, drop when it does; a record that is neither gets none; and all of
\* them come before onDragEnd, the last callback of the release.
C36_TerminalStep ==
    \A h \in DOMAIN drag :
        (event'.type = "mouseup" /\ event'.button = 0 /\ h \in Active) =>
            /\ Len(registry') = Len(registry)
            /\ Is(calls', Len(calls'), "onDragEnd", h)
            /\ \A i \in 1..Len(registry) :
                  LET d == registry[i].handler
                      hit == hitTestRect(registry'[i].rect, event'.x, event'.y)
                      concerned == registry[i].entered \/ registry'[i].entered
                      leaves == Dispatched(calls', "onDragLeave", d)
                      drops == Dispatched(calls', "onDrop", d)
                  IN  /\ registry'[i].handler = d
                      /\ leaves + drops = (IF concerned THEN 1 ELSE 0)
                      /\ concerned => (drops = 1 <=> hit)
                      /\ Invoked(calls', "onDragLeave", d) =
                            IF drop[d].onDragLeave # "null" THEN leaves ELSE 0
                      /\ Invoked(calls', "onDrop", d) =
                            IF drop[d].onDrop # "null" THEN drops ELSE 0
                      /\ \A j \in 1..Len(calls') :
                            (calls'[j].on = d /\ calls'[j].cb \in {"onDragLeave", "onDrop"})
                            => j < Len(calls')

C36_OneTerminalCallback == [][C36_TerminalStep]_vars

\* A release inside B and outside A, A being entered and B not: drag-leave
\* for A, drag-enter and drop for B, then onDragEnd.
C36_Witness ==
    /\ ReleaseOf("h1")
    /\ Len(calls) = 4
    /\ Is(calls, 1, "onDragLeave", "A") /\ calls[1].entered = {}
    /\ Is(calls, 2, "onDragEnter", "B") /\ calls[2].entered = {"B"}
    /\ Is(calls, 3, "onDrop", "B")
    /\ Is(calls, 4, "onDragEnd", "h1")

----------------------------------------------------------------------------
(* C37: a press and a release without a drag *)

\* What C37 says of handler h in a gesture begun by a primary-button
\* mousedown in which no move has reached the threshold.
C37_NothingHappened(h) ==
    /\ hist[h].starts = 0
    /\ ~drag[h].dragData.live
    /\ ghosts[h] = 0
    /\ cursor = "" /\ ~overrideClass
    /\ event.type \in {"mousemove", "mouseup"} => calls = <<>>
    /\ (event.type = "mouseup" /\ event.button = 0) => ~InSeq(h, docListeners)

\* C37: a primary-button press followed by a primary-button release, with no
\* move between them reaching 5 pixels in x or in y, invokes no callback,
\* creates no ghost and no cursor override, and the release removes the
\* document listeners of the handler.
C37_PressReleaseDoesNothing ==
    \A h \in DOMAIN drag :
        (hist[h].origin = "mousedown" /\ hist[h].qualified = 0) => C37_NothingHappened(h)

\* What the code does keep: the same on a handler on which start() never
\* took effect.
C37_WithThresholdInForce ==
    \A h \in DOMAIN drag :
        ( /\ hist[h].origin = "mousedown" /\ hist[h].qualified = 0
          /\ ~drag[h].ignoreThreshold ) => C37_NothingHappened(h)

----------------------------------------------------------------------------
(* C38: a release whose callbacks throw *)

\* C38: a primary-button release of an active drag ends with the handler
\* holding no DragData, its ghost out of the document and the cursor
\* override of the DragData disposed (cursor '' and no marker class), and
\* the document listeners removed, also when a drop callback or onDragEnd
\* threw during the release.
C38_ReleaseStep ==
    \A h \in DOMAIN drag :
        (event'.type = "mouseup" /\ event'.button = 0 /\ h \in Active) =>
            /\ ~drag'[h].dragData.live
            /\ ghosts'[h] = 0
            /\ cursor' = "" /\ ~overrideClass'
            /\ ~InSeq(h, docListeners')
            /\ threw' <=> \E j \in 1..Len(calls') :
                              \/ Is(calls', j, "onDragEnd", h) /\ drag[h].onDragEnd = "throw"
                              \/ \E d \in DropIds : calls'[j].on = d /\ drop[d][calls'[j].cb] = "throw"

C38_ReleaseDisposesDespiteThrow == [][C38_ReleaseStep]_vars

\* A release inside A whose onDrop threw: it is the last callback, onDragEnd
\* did not run, and the drag data is disposed.
C38_Witness ==
    /\ ReleaseOf("h1")
    /\ threw
    /\ Is(calls, Len(calls), "onDrop", "A")
    /\ calls[Len(calls)].live /\ calls[Len(calls)].cursor # ""
    /\ ~drag["h1"].dragData.live
    /\ ghosts["h1"] = 0
    /\ cursor = ""

----------------------------------------------------------------------------
(* C39: the dropAction that onDragEnd finds *)

\* C39: after a drop pass that matched some record, onDragEnd finds the
\* dropAction left by the last matched record in registry order: 'none' when
\* that record has no onDrop callback, also when the onDrop of an earlier
\* matched record assigned another action; the action its onDrop assigned
\* otherwise.
C39_LastMatchedDecides ==
    \A h \in DOMAIN drag :
        (ReleaseOf(h) /\ Matched # {}) =>
            LET last == CHOOSE i \in Matched : \A k \in Matched : k <= i
                d == registry[last].handler
                end == calls[Len(calls)]
            IN  /\ Len(calls) >= 2
                /\ Is(calls, Len(calls), "onDragEnd", h)
                /\ Is(calls, Len(calls) - 1, "onDrop", d)
                /\ end.action = CASE drop[d].onDrop = "null" -> "none"
                                   [] drop[d].onDrop = "keep" -> calls[Len(calls) - 1].action
                                   [] OTHER -> drop[d].onDrop

\* A release inside A and B, A registered first: the onDrop of A assigned
\* 'link', B has no onDrop, and onDragEnd finds 'none'.
C39_Witness ==
    /\ ReleaseOf("h1")
    /\ Len(registry) = 2 /\ registry[1].handler = "A" /\ registry[2].handler = "B"
    /\ Matched = {1, 2}
    /\ \E j \in 1..Len(calls) :
          /\ Is(calls, j, "onDrop", "A") /\ calls[j].invoked
          /\ Is(calls, j + 1, "onDrop", "B") /\ ~calls[j + 1].invoked
          /\ calls[j + 1].action = "link"
          /\ Is(calls, j + 2, "onDragEnd", "h1")
          /\ calls[j + 2].action = "none"

----------------------------------------------------------------------------
(* C40: the drop data of a drag event *)

\* What getDropData(e, mime) returns in the current state.
DropDataOf(e, mime) == getDropData(DropDataWorld, e, mime).result

\* C40: the drop data cache is a map per drag event: after any sequence of
\* setDropData and clearDropData calls, setDropData(event, mime, v) raises
\* nothing and getDropData(event, mime) then returns v, and after
\* clearDropData(event) getDropData(event, mime) returns undefined for every
\* mime.
C40_DropDataIsMap ==
    /\ event.type = "setDropData" =>
          /\ ~threw
          /\ DropDataOf(event.target, event.mime) = event.value
    /\ event.type = "clearDropData" =>
          /\ ~threw
          /\ \A m \in Mimes : DropDataOf(event.target, m) = "undefined"
    /\ event.type = "getDropData" =>
          /\ ~threw
          /\ event.value = DropDataOf(event.target, event.mime)

\* What the code does keep: the same, except that setDropData raises an
\* exception, and stores nothing, on an event whose data was cleared.
C40_DropDataIsMapUntilCleared ==
    /\ event.type = "setDropData" =>
          /\ threw <=> ( /\ dataTransfer[event.target] # NoId
                          /\ dataTransfer[event.target] \notin DOMAIN dropCache.data )
          /\ ~threw => DropDataOf(event.target, event.mime) = event.value
          /\ threw => \A m \in Mimes : DropDataOf(event.target, m) = "undefined"
    /\ event.type = "clearDropData" =>
          /\ ~threw
          /\ \A m \in Mimes : DropDataOf(event.target, m) = "undefined"
    /\ event.type = "getDropData" =>
          /\ ~threw
          /\ event.value = DropDataOf(event.target, event.mime)

====
